---- MODULE Spec2Model ----
(***************************************************************************)
(* A model of the core subsystems of the repository:                       *)
(*   - scripts/merkle_proofs.py and scripts/verify_row.py: the Merkle      *)
(*     commitment over the rows of a CSV file, its inclusion proofs and    *)
(*     the stand-alone verifier;                                           *)
(*   - scripts/utils_eth.py: RpcPool, the rotating, retrying JSON-RPC      *)
(*     pool with its concurrency gate, its construction and its session;   *)
(*   - scripts/harvest_candidates.py, scripts/bulletproof_pipeline.py and  *)
(*     scripts/token_multicall_simple.py: the programs that run on a pool. *)
(*                                                                         *)
(* Byte strings are sequences of naturals in 0..255.  sha256 is taken to   *)
(* be collision-free: a digest is its input between two bytes that occur   *)
(* in no row, so that a digest determines the input while the '+' of the   *)
(* code stays the concatenation of byte strings that it is.  Hexadecimal   *)
(* text is a sequence of ASCII codes.                                      *)
(***************************************************************************)
EXTENDS Integers, Sequences, FiniteSets, TLC

VARIABLES
    \* ---- merkle_proofs.py / verify_row.py
    rows,        \* the data rows of the CSV file, after its header
    samples,     \* compute_merkle's sample_indices
    layers,      \* MerkleTree.layers of the tree compute_merkle builds
    rootFile,    \* the text of merkle_root.txt
    proofFiles,  \* the objects written to inclusion_proofs/sample_row_<idx>.json
    mstatus,     \* "start", then "ok" (compute_merkle returned) or "raised"
    vin,         \* the proof object handed to verify_row, possibly altered
    vorig,       \* the proof object as compute_merkle wrote it
    valter,      \* how vin was altered: "none", "row", "hash" or "case"
    vstatus,     \* "none", "loaded" (a proof file was taken), "done" (verify_row ran)
    vout,        \* what verify_row printed
    \* ---- utils_eth.py: one RpcPool and the post() calls running on it
    urls,        \* RpcPool.urls
    rr,          \* RpcPool._rr, the rotation cursor
    rr0,         \* the value _rr was constructed with
    concurrency, \* the concurrency argument of RpcPool.__init__
    sem,         \* the value of RpcPool.sem: the permits left
    max_retries, \* RpcPool.max_retries
    inject,      \* the outcomes the endpoints may answer an attempt with
    call,        \* call[c]: the frame of caller c's post(), with its history
    picks,       \* every endpoint _pick has returned, in order
    \* ---- utils_eth.py: the construction of a pool and its session
    owner,       \* the program that constructs the pool, "direct" for a bare caller
    urlsArg,     \* the urls argument of RpcPool.__init__
    envUrl,      \* the environment variable ETH_RPC_URL
    pstat,       \* "new", then "constructed" or "raised" (ValueError)
    session,     \* RpcPool._session: "None", "open" or "closed"
    opened,      \* how many sessions _client has created
    released,    \* how many sessions close() has closed
    closeCalls,  \* how many times close() was called
    spc,         \* the owner's position: "body", "finally", "done"
    sexit,       \* how the owner's body ended: "none", "normal", "error"
    \* ---- harvest_candidates.py / bulletproof_pipeline.py: one batched request
    bprog,       \* "blocks" (fetch_batch_blocks) or "balances" (batch_eth_getBalance)
    bsubjects,   \* the blocks of the one call, or the addresses of the harvest
    bbatch,      \* the batch argument of batch_eth_getBalance
    bi,          \* how many chunks batch_eth_getBalance has gone through
    balances,    \* the dict batch_eth_getBalance fills
    bresults,    \* what fetch_batch_blocks returned
    blog,        \* what pool.post returned for each batched request, in order
    bstat,       \* "start", "run", "returned", then "mapped" (run_pipeline's column)
    eth_balance, \* the eth_balance column run_pipeline derives from balances
    \* ---- harvest_candidates.py: one run of main_async
    hpc,         \* "latest", "batch", "single", "process", then "returned" or "raised"
    latest_attempt, \* how many eth_blockNumber requests were made
    hsleeps,     \* the sleeps between them, in tenths of a second
    latest,      \* the latest block, -1 before it is known
    lookback_blocks, \* the argument of that name
    batch_size,  \* the argument of that name
    ci,          \* the position of the current chunk in the sweep, from 1
    br_attempt,  \* how many batched requests were made for the current chunk
    singles,     \* the fetch_block_with_retries tasks of the current chunk
    res,         \* the results of the current chunk, aligned to it
    consecutive_batch_failures, \* the counter of that name
    addrs,       \* the set of harvested addresses
    outFile,     \* the candidates file: whether written, and its rows
    hlog,        \* one record per chunk gone through
    processed,   \* the counter of that name
    visited,     \* the blocks of the chunks the sweep has entered, in order
    \* ---- proof_and_sample.py: one run of the script
    dpc,         \* "start", "sampled", "manifested", "keyed", "published", then "done" or "raised"
    dataset,     \* the file --dataset names: whether it exists, its columns, its rows
    sample_size, \* the argument --sample-size
    privkey,     \* the argument --privkey and the file it names
    platform,    \* "posix" or "windows": the line ending of text files
    now,         \* int(time.time())
    manifest,    \* the text json.dumps made of the manifest
    sk,          \* the signing key in memory
    outdir,      \* the files the run has written: name to bytes
    signed       \* the bytes handed to sk.sign

mvars == <<rows, samples, layers, rootFile, proofFiles, mstatus,
           vin, vorig, valter, vstatus, vout>>

pvars == <<urls, rr, rr0, concurrency, sem, max_retries, inject, call, picks>>

svars == <<owner, urlsArg, envUrl, pstat, session, opened, released, closeCalls,
           spc, sexit>>

\* the variables outside the commitment and outside the pool's request path
bvars == <<bprog, bsubjects, bbatch, bi, balances, bresults, blog, bstat, eth_balance>>

hvars == <<hpc, latest_attempt, hsleeps, latest, lookback_blocks, batch_size, ci,
           br_attempt, singles, res, consecutive_batch_failures, addrs, outFile, hlog,
           processed, visited>>

dvars == <<dpc, dataset, sample_size, privkey, platform, now, manifest, sk, outdir, signed>>

xvars == <<svars, bvars, hvars, dvars>>

vars == <<mvars, pvars, xvars>>

----------------------------------------------------------------------------
(* Bounds of the model                                                      *)

MaxLeaves == 5

\* the pool: endpoints, retries, the concurrency argument, concurrent callers
MaxUrls == 2
MaxRetries == 2
MaxConcurrency == 2
NumCallers == 2

----------------------------------------------------------------------------
(* Python helpers                                                           *)

\* s[i] of a Python list, 0-based
At(s, i) == s[i + 1]

Last(s) == s[Len(s)]

\* cur ^ 1 on a non-negative int
Xor1(n) == IF n % 2 = 0 THEN n + 1 ELSE n - 1

\* hashlib.sha256(x).digest(), collision-free
Sha256(x) == <<254>> \o x \o <<255>>

\* one hexadecimal digit of bytes.hex(): '0'..'9', 'a'..'f'
HexDigit(n) == IF n < 10 THEN 48 + n ELSE 87 + n

\* bytes.hex()
Hex(b) ==
    [i \in 1..(2 * Len(b)) |->
        IF i % 2 = 1 THEN HexDigit(b[(i + 1) \div 2] \div 16) ELSE HexDigit(b[i \div 2] % 16)]

\* the value of one hexadecimal digit as bytes.fromhex reads it: either case
Nibble(ch) ==
    IF ch \in 48..57 THEN ch - 48
    ELSE IF ch \in 97..102 THEN ch - 87
    ELSE IF ch \in 65..70 THEN ch - 55
    ELSE -1

\* bytes.fromhex() of a well-formed hexadecimal text
FromHex(t) == [i \in 1..(Len(t) \div 2) |-> 16 * Nibble(t[2 * i - 1]) + Nibble(t[2 * i])]

\* str.upper() on hexadecimal text
Upper(t) == [i \in 1..Len(t) |-> IF t[i] \in 97..102 THEN t[i] - 32 ELSE t[i]]

----------------------------------------------------------------------------
(* merkle_proofs.py                                                         *)

\* '\x1f'.join(fields).encode('utf-8'); a field is the bytes of str(c)
RECURSIVE canonical_row_bytes(_)
canonical_row_bytes(row) ==
    IF row = <<>> THEN <<>>
    ELSE IF Len(row) = 1 THEN row[1]
    ELSE row[1] \o <<31>> \o canonical_row_bytes(Tail(row))

Hleaf(b) == Sha256(<<0>> \o b)

Hnode(a, b) == Sha256(<<1>> \o a \o b)

\* a variant that promotes the unpaired last node unhashed
NextLayerPromote(layer) ==
    [j \in 1..((Len(layer) + 1) \div 2) |->
        IF 2 * j <= Len(layer) THEN Hnode(layer[2 * j - 1], layer[2 * j])
        ELSE layer[2 * j - 1]]

\* the body of the while loop of MerkleTree.__init__: the layer above `layer`
NextLayer(layer) ==
    [j \in 1..((Len(layer) + 1) \div 2) |->
        LET a == layer[2 * j - 1]
            b == IF 2 * j <= Len(layer) THEN layer[2 * j] ELSE layer[2 * j - 1]
        IN  Hnode(a, b)]

RECURSIVE BuildLayers(_)
BuildLayers(ls) ==
    IF Len(Last(ls)) > 1 THEN BuildLayers(Append(ls, NextLayer(Last(ls)))) ELSE ls

\* MerkleTree.__init__: self.layers
MerkleTree(leaves) ==
    LET hashed == [i \in 1..Len(leaves) |-> Hleaf(leaves[i])]
    IN  IF hashed = <<>> THEN <<>> ELSE BuildLayers(<<hashed>>)

\* what indexing an empty list raises
IndexError == <<256>>

\* a variant without the guard for the empty tree
rootNoGuard(ls) == IF ls = <<>> THEN IndexError ELSE Last(ls)[1]

\* MerkleTree.root
root(ls) == IF ls = <<>> THEN <<>> ELSE Last(ls)[1]

\* a variant whose side flag is true when the sibling's position is odd
ProofStepLeftOdd(layer, cur) ==
    LET pair == Xor1(cur)
    IN  IF pair < Len(layer)
        THEN [hash |-> Hex(At(layer, pair)), is_left |-> (pair % 2 = 1)]
        ELSE [hash |-> Hex(At(layer, cur)), is_left |-> FALSE]

\* one step of the loop of MerkleTree.proof, at layer `layer` and position `cur`
ProofStep(layer, cur) ==
    LET pair == Xor1(cur)
    IN  IF pair < Len(layer)
        THEN [hash |-> Hex(At(layer, pair)), is_left |-> (pair % 2 = 0)]
        ELSE [hash |-> Hex(At(layer, cur)), is_left |-> FALSE]

\* a variant that walks the root layer too
ProofLayersAll(ls) == ls

\* the layers MerkleTree.proof walks: self.layers[:-1]
ProofLayers(ls) == IF ls = <<>> THEN <<>> ELSE SubSeq(ls, 1, Len(ls) - 1)

RECURSIVE ProofFrom(_, _)
ProofFrom(ls, cur) ==
    IF ls = <<>> THEN <<>>
    ELSE <<ProofStep(Head(ls), cur)>> \o ProofFrom(Tail(ls), cur \div 2)

\* MerkleTree.proof
proof(ls, idx) == ProofFrom(ProofLayers(ls), idx)

\* the proof object compute_merkle writes for row idx
ProofObject(rs, ls, idx) == [index |-> idx, row |-> At(rs, idx), proof |-> proof(ls, idx)]

----------------------------------------------------------------------------
(* verify_row.py: its own copies of the three hashing helpers               *)

RECURSIVE verify_canonical_row_bytes(_)
verify_canonical_row_bytes(row) ==
    IF row = <<>> THEN <<>>
    ELSE IF Len(row) = 1 THEN row[1]
    ELSE row[1] \o <<31>> \o verify_canonical_row_bytes(Tail(row))

\* a variant that hashes a leaf under the node prefix
verify_HleafNodePrefix(b) == Sha256(<<1>> \o b)

verify_Hleaf(b) == Sha256(<<0>> \o b)

verify_Hnode(a, b) == Sha256(<<1>> \o a \o b)

\* a variant that takes a step that is not left for the self-paired one
VerifyStepSelfPair(cur, p) ==
    LET sib == FromHex(p.hash)
    IN  IF p.is_left THEN verify_Hnode(sib, cur) ELSE verify_Hnode(cur, cur)

\* the body of the loop of verify_row
VerifyStep(cur, p) ==
    LET sib == FromHex(p.hash)
    IN  IF p.is_left THEN verify_Hnode(sib, cur) ELSE verify_Hnode(cur, sib)

RECURSIVE VerifyFold(_, _)
VerifyFold(cur, steps) ==
    IF steps = <<>> THEN cur ELSE VerifyFold(VerifyStep(cur, Head(steps)), Tail(steps))

\* the bytes verify_row ends its loop with
VerifyCur(p) == VerifyFold(verify_Hleaf(verify_canonical_row_bytes(p.row)), p.proof)

Whitespace == {9, 10, 11, 12, 13, 32}

\* str.strip()
RECURSIVE Strip(_)
Strip(t) ==
    IF t = <<>> THEN t
    ELSE IF Head(t) \in Whitespace THEN Strip(Tail(t))
    ELSE IF Last(t) \in Whitespace THEN Strip(SubSeq(t, 1, Len(t) - 1))
    ELSE t

\* the exit status of the script: 2 from sys.exit(2) on the usage path, 0 when
\* it runs to its last line
ExitUsage == 2
ExitNormal == 0

\* the three lines verify_row prints, and its exit status
VerifyReport(p, rootText) ==
    LET computed == Hex(VerifyCur(p))
        expected == Strip(rootText)
    IN  [computed_root |-> computed, expected_root |-> expected,
         match |-> (computed = expected), exit |-> ExitNormal]

----------------------------------------------------------------------------
(* The inputs of the model                                                  *)

FieldA == <<97>>
FieldB == <<98>>

\* rows of one or two fields; the last two have the same canonical bytes
RowSet == {<<FieldA>>, <<FieldA, FieldB>>, <<FieldA \o <<31>> \o FieldB>>}

RECURSIVE SeqsUpTo(_, _)
SeqsUpTo(S, n) ==
    IF n = 0 THEN {<<>>}
    ELSE LET shorter == SeqsUpTo(S, n - 1)
         IN  shorter \cup {Append(s, x) : s \in {t \in shorter : Len(t) = n - 1}, x \in S}

\* the default of --samples, and a list with indices out of range on both sides
SampleSets == {0..9, {-1, 0, MaxLeaves}}

NoProof == [index |-> -1, row |-> <<>>, proof |-> <<>>]
NoReport == [computed_root |-> <<>>, expected_root |-> <<>>, match |-> FALSE, exit |-> -1]

\* what a forger may put in place of the hash of step k: another node of the
\* layer that step was taken from, the root, or the empty byte string
Forgeries(ls, k) == {ls[k][j] : j \in 1..Len(ls[k])} \cup {root(ls), <<>>}

----------------------------------------------------------------------------
(* Actions of the commitment and its verifier                               *)

\* no pool is constructed
PoolUnused ==
    /\ urls = <<>>
    /\ rr = 0
    /\ rr0 = 0
    /\ concurrency = 0
    /\ sem = 0
    /\ max_retries = 0
    /\ inject = {}
    /\ call = <<>>
    /\ picks = <<>>

\* Values of JSON and of Python, each a record of a type tag and a payload:
\* None and null, a str (as character codes), a JSON array, a JSON object
\* (written by its "result" member, if it has one), a block object (written
\* by its number)
Null == [t |-> "null", v |-> 0]
Str(x) == [t |-> "str", v |-> x]
List(x) == [t |-> "list", v |-> x]
Dict(x) == [t |-> "dict", v |-> x]
Block(n) == [t |-> "block", v |-> n]

\* 0.0, and the float of Web3.fromWei(v, "ether"): v over 10^18
Zero == [num |-> 0, exp10 |-> 0]
Ether(v) == [num |-> v, exp10 |-> -18]

\* no batched request is made
BatchUnused ==
    /\ bprog = "none"
    /\ bsubjects = <<>>
    /\ bbatch = 0
    /\ bi = 0
    /\ balances = <<>>
    /\ bresults = Null
    /\ blog = <<>>
    /\ bstat = "unused"
    /\ eth_balance = <<>>

\* the candidates file before it is written
NoFile == [written |-> FALSE, rows |-> {}]

\* no harvest runs
HarvestUnused ==
    /\ hpc = "unused"
    /\ latest_attempt = 0
    /\ hsleeps = <<>>
    /\ latest = -1
    /\ lookback_blocks = 0
    /\ batch_size = 0
    /\ ci = 0
    /\ br_attempt = 0
    /\ singles = <<>>
    /\ res = <<>>
    /\ consecutive_batch_failures = 0
    /\ addrs = {}
    /\ outFile = NoFile
    /\ hlog = <<>>
    /\ processed = 0
    /\ visited = <<>>

\* no pool is constructed by a program
SessionUnused ==
    /\ owner = "none"
    /\ urlsArg = [kind |-> "None", val |-> <<>>]
    /\ envUrl = <<>>
    /\ pstat = "new"
    /\ session = "None"
    /\ opened = 0
    /\ released = 0
    /\ closeCalls = 0
    /\ spc = "done"
    /\ sexit = "none"

\* nothing but the commitment runs
\* no key was obtained, nothing was signed
NoKey == [alg |-> "none", id |-> 0]
NoData == [rows |-> <<>>, exists |-> FALSE, usd_value |-> FALSE]
NoKeyFile == [given |-> FALSE, kind |-> "none", id |-> 0]

\* no delivery is signed
SignerUnused ==
    /\ dpc = "unused"
    /\ dataset = NoData
    /\ sample_size = 0
    /\ privkey = NoKeyFile
    /\ platform = "posix"
    /\ now = 0
    /\ manifest = <<>>
    /\ sk = NoKey
    /\ outdir = <<>>
    /\ signed = <<>>

OthersUnused == SessionUnused /\ BatchUnused /\ HarvestUnused /\ SignerUnused

MInit ==
    /\ PoolUnused
    /\ OthersUnused
    /\ rows \in SeqsUpTo(RowSet, MaxLeaves)
    /\ samples \in SampleSets
    /\ layers = <<>>
    /\ rootFile = <<>>
    /\ proofFiles = {}
    /\ mstatus = "start"
    /\ vin = NoProof
    /\ vorig = NoProof
    /\ valter = "none"
    /\ vstatus = "none"
    /\ vout = NoReport

\* compute_merkle(csv_path, out_dir, sample_indices)
compute_merkle ==
    /\ mstatus = "start"
    /\ LET leaves == [i \in 1..Len(rows) |-> canonical_row_bytes(rows[i])]
           mt == MerkleTree(leaves)
           r == root(mt)
       IN  /\ layers' = mt
           /\ IF r = IndexError
              THEN /\ mstatus' = "raised"
                   /\ UNCHANGED <<rootFile, proofFiles>>
              ELSE /\ mstatus' = "ok"
                   /\ rootFile' = Hex(r)
                   /\ proofFiles' = {ProofObject(rows, mt, idx) :
                                        idx \in {s \in samples : 0 <= s /\ s < Len(rows)}}
    /\ UNCHANGED <<rows, samples, vin, vorig, valter, vstatus, vout>>
    /\ UNCHANGED <<pvars, xvars>>

\* a proof file is handed to the verifier
TakeProof ==
    /\ mstatus = "ok"
    /\ vstatus = "none"
    /\ \E p \in proofFiles :
         /\ vin' = p
         /\ vorig' = p
    /\ vstatus' = "loaded"
    /\ UNCHANGED <<rows, samples, layers, rootFile, proofFiles, mstatus, valter, vout>>
    /\ UNCHANGED <<pvars, xvars>>

\* the record of the proof object is replaced by one of other canonical bytes
AlterRow ==
    /\ vstatus = "loaded"
    /\ valter = "none"
    /\ \E r \in RowSet :
         /\ canonical_row_bytes(r) # canonical_row_bytes(vin.row)
         /\ vin' = [vin EXCEPT !.row = r]
    /\ valter' = "row"
    /\ UNCHANGED <<rows, samples, layers, rootFile, proofFiles, mstatus, vorig, vstatus, vout>>
    /\ UNCHANGED <<pvars, xvars>>

\* the hash of one proof step is replaced by the hex of other bytes
AlterHash ==
    /\ vstatus = "loaded"
    /\ valter = "none"
    /\ \E k \in 1..Len(vin.proof) :
         \E d \in Forgeries(layers, k) :
            /\ Hex(d) # vin.proof[k].hash
            /\ vin' = [vin EXCEPT !.proof[k].hash = Hex(d)]
    /\ valter' = "hash"
    /\ UNCHANGED <<rows, samples, layers, rootFile, proofFiles, mstatus, vorig, vstatus, vout>>
    /\ UNCHANGED <<pvars, xvars>>

\* the hash of one proof step is rewritten in upper case: the same bytes
AlterCase ==
    /\ vstatus = "loaded"
    /\ valter = "none"
    /\ \E k \in 1..Len(vin.proof) :
         /\ Upper(vin.proof[k].hash) # vin.proof[k].hash
         /\ vin' = [vin EXCEPT !.proof[k].hash = Upper(vin.proof[k].hash)]
    /\ valter' = "case"
    /\ UNCHANGED <<rows, samples, layers, rootFile, proofFiles, mstatus, vorig, vstatus, vout>>
    /\ UNCHANGED <<pvars, xvars>>

\* python scripts/verify_row.py <proof_json> <merkle_root.txt>
verify_row ==
    /\ vstatus = "loaded"
    /\ vout' = VerifyReport(vin, rootFile)
    /\ vstatus' = "done"
    /\ UNCHANGED <<rows, samples, layers, rootFile, proofFiles, mstatus, vin, vorig, valter>>
    /\ UNCHANGED <<pvars, xvars>>

\* python scripts/verify_row.py with fewer than two arguments: the usage line
\* is printed and the script exits with status 2
verify_row_usage ==
    /\ vstatus \in {"none", "loaded"}
    /\ vout' = [NoReport EXCEPT !.exit = ExitUsage]
    /\ vstatus' = "usage"
    /\ UNCHANGED <<rows, samples, layers, rootFile, proofFiles, mstatus, vin, vorig, valter>>
    /\ UNCHANGED <<pvars, xvars>>

MNext ==
    \/ compute_merkle \/ TakeProof \/ AlterRow \/ AlterHash \/ AlterCase
    \/ verify_row \/ verify_row_usage

SpecMerkle == MInit /\ [][MNext]_vars

----------------------------------------------------------------------------
(* utils_eth.py: RpcPool                                                    *)

Min(a, b) == IF a <= b THEN a ELSE b
Max(a, b) == IF a >= b THEN a ELSE b

\* What one HTTP attempt can end in: a status other than 200 (429, one of
\* 500 and above, any other), a 200 whose body is a JSON value without an
\* error field, a 200 whose body is a JSON object with an error field, a 200
\* whose body is no JSON, an exception of the transport, a timeout.
Outcomes == {"s429", "s5xx", "sOther", "ok", "rpc_error", "malformed", "transport", "timeout"}

\* the outcomes that raise an exception inside the try block
Exceptions == {"transport", "timeout"}

\* a handler that catches the transport's errors only
CaughtTransportOnly(o) == o = "transport"

\* except Exception: aiohttp.ClientError and asyncio.TimeoutError are both
\* subclasses of Exception
Caught(o) == o \in Exceptions

\* a variant that retries a body that is no JSON
ClassifyRetryMalformed(o) ==
    CASE o = "ok" -> "return_ok"
      [] o \in Exceptions -> "except"
      [] OTHER -> "retry"

\* the branch of the try block an outcome takes
Classify(o) ==
    CASE o \in {"s429", "s5xx", "sOther", "rpc_error"} -> "retry"
      [] o = "malformed" -> "return_invalid_json"
      [] o = "ok" -> "return_ok"
      [] o \in Exceptions -> "except"

\* no sleep is taken
NoSleep == [base |-> 0, jitter |-> 0]

\* a variant that sleeps the capped time after a timeout, whatever the attempt
BackoffTimeoutFlat(o, attempt) ==
    CASE o = "s429" -> [base |-> Min(30000, 600 * (2 ^ attempt)), jitter |-> 1000]
      [] o = "s5xx" -> [base |-> Min(30000, 500 * (2 ^ attempt)), jitter |-> 1000]
      [] o = "sOther" -> [base |-> Min(8000, 400 * attempt), jitter |-> 500]
      [] o = "rpc_error" -> [base |-> Min(8000, 400 * attempt), jitter |-> 0]
      [] o = "transport" -> [base |-> Min(8000, 500 * attempt), jitter |-> 500]
      [] o = "timeout" -> [base |-> 8000, jitter |-> 500]
      [] OTHER -> NoSleep

\* the argument of asyncio.sleep after a failed attempt, in milliseconds:
\* the fixed part, and the bound of the random part; the outcomes that
\* return take no sleep
Backoff(o, attempt) ==
    CASE o = "s429" -> [base |-> Min(30000, 600 * (2 ^ attempt)), jitter |-> 1000]
      [] o = "s5xx" -> [base |-> Min(30000, 500 * (2 ^ attempt)), jitter |-> 1000]
      [] o = "sOther" -> [base |-> Min(8000, 400 * attempt), jitter |-> 500]
      [] o = "rpc_error" -> [base |-> Min(8000, 400 * attempt), jitter |-> 0]
      [] o \in Exceptions -> [base |-> Min(8000, 500 * attempt), jitter |-> 500]
      [] OTHER -> NoSleep

\* last_err: the outcome and the endpoint it names; None before any failure
NoErr == [kind |-> "None", url |-> 0]
ErrOf(o, u) == [kind |-> o, url |-> u]

\* a variant that keeps the description of the first failure
KeepFirstErr(prev, o, u) == IF prev = NoErr THEN ErrOf(o, u) ELSE prev

\* last_err = f"... {url}: ...": the description of the attempt that just
\* failed replaces the one held before
SetLastErr(prev, o, u) == ErrOf(o, u)

\* the (ok, data) pairs post() returns
NoRet == [ok |-> FALSE, kind |-> "none", err |-> NoErr]
RetData == [ok |-> TRUE, kind |-> "data", err |-> NoErr]
RetInvalidJson == [ok |-> FALSE, kind |-> "invalid_json", err |-> NoErr]
RetError(e) == [ok |-> FALSE, kind |-> "error", err |-> e]

\* a variant of the semaphore's size without the floor of one
SemaphoreSizeNoFloor(c) == c

\* asyncio.Semaphore(max(1, int(concurrency)))
SemaphoreSize(c) == Max(1, c)

\* a variant that lets a caller in when no permit is left
SemFreeOffByOne(v) == v >= 0

\* Semaphore.acquire goes through when the value is positive
SemFree(v) == v > 0

\* a variant that does not advance the cursor
AdvanceStuck(r) == r

\* self._rr += 1
Advance(r) == r + 1

\* url = self.urls[self._rr % len(self.urls)]
Pick(us, r) == At(us, r % Len(us))

\* the frame of a post() that has not been called
IdleCall ==
    [pc |-> "idle", attempt |-> 0, url |-> 0, last_err |-> NoErr, ret |-> NoRet,
     posts |-> 0, fails |-> 0, sleeps |-> 0, backoff |-> NoSleep,
     lastOut |-> "none", held |-> 0]

\* RpcPool.__init__ with P endpoints, and the calls to come
RpcPool(P, cs) ==
    /\ urls = [i \in 1..P |-> i]
    /\ rr0 \in 0..(P - 1)
    /\ rr = rr0
    /\ sem = SemaphoreSize(concurrency)
    /\ call = [c \in cs |-> IdleCall]
    /\ picks = <<>>

\* a variant whose loop stops one attempt short
InRangeShort(a, n) == a < n

\* for attempt in range(1, self.max_retries + 1)
InRange(a, n) == a <= n

\* post() leaves with value v (its locals go with the frame; the history
\* fields stay) and the async with gives the permit back
Leave(k, v) ==
    [k EXCEPT !.pc = IF v = NoRet THEN "raised" ELSE "returned", !.ret = v,
              !.attempt = 0, !.url = 0, !.last_err = NoErr, !.backoff = NoSleep,
              !.held = @ - 1]

\* The head of the for loop, reached by caller c with frame k and the permit
\* held (s permits are left): attempt a picks its endpoint and sends the
\* request, or, past max_retries, post() returns the last error.
LoopHead(c, k, a, s) ==
    IF InRange(a, max_retries)
    THEN /\ call' = [call EXCEPT ![c] =
                        [k EXCEPT !.pc = "inflight", !.attempt = a,
                                  !.url = Pick(urls, rr), !.posts = @ + 1]]
         /\ rr' = Advance(rr)
         /\ picks' = Append(picks, Pick(urls, rr))
         /\ sem' = s
    ELSE /\ call' = [call EXCEPT ![c] = Leave(k, RetError(k.last_err))]
         /\ sem' = s + 1
         /\ UNCHANGED <<rr, picks>>

\* post() is called: it takes a permit and starts its first attempt, or
\* waits for a permit
Post(c) ==
    /\ call[c].pc = "idle"
    /\ IF SemFree(sem)
       THEN LoopHead(c, [call[c] EXCEPT !.held = @ + 1], 1, sem - 1)
       ELSE /\ call' = [call EXCEPT ![c].pc = "waiting"]
            /\ UNCHANGED <<rr, picks, sem>>
    /\ UNCHANGED <<urls, rr0, concurrency, max_retries, inject>>
    /\ UNCHANGED <<mvars, xvars>>

\* a waiting post() gets a permit and starts its first attempt
Acquire(c) ==
    /\ call[c].pc = "waiting"
    /\ SemFree(sem)
    /\ LoopHead(c, [call[c] EXCEPT !.held = @ + 1], 1, sem - 1)
    /\ UNCHANGED <<urls, rr0, concurrency, max_retries, inject>>
    /\ UNCHANGED <<mvars, xvars>>

\* the attempt in flight ends in outcome o
Respond(c, o) ==
    LET k == call[c]
        branch == IF Classify(o) = "except"
                  THEN (IF Caught(o) THEN "retry" ELSE "raise")
                  ELSE Classify(o)
        seen == [k EXCEPT !.lastOut = o]
    IN  /\ k.pc = "inflight"
        /\ IF branch = "retry"
           THEN /\ call' = [call EXCEPT ![c] =
                              [seen EXCEPT !.pc = "sleeping",
                                           !.last_err = SetLastErr(k.last_err, o, k.url),
                                           !.fails = @ + 1,
                                           !.sleeps = @ + 1,
                                           !.backoff = Backoff(o, k.attempt)]]
                /\ UNCHANGED sem
           ELSE /\ call' = [call EXCEPT ![c] =
                              Leave(seen, CASE branch = "return_invalid_json" -> RetInvalidJson
                                            [] branch = "return_ok" -> RetData
                                            [] branch = "raise" -> NoRet)]
                /\ sem' = sem + 1
        /\ UNCHANGED <<urls, rr, rr0, concurrency, max_retries, inject, picks>>
        /\ UNCHANGED <<mvars, xvars>>

\* the backoff sleep ends: the loop goes on
Wake(c) ==
    /\ call[c].pc = "sleeping"
    /\ LoopHead(c, call[c], call[c].attempt + 1, sem)
    /\ UNCHANGED <<urls, rr0, concurrency, max_retries, inject>>
    /\ UNCHANGED <<mvars, xvars>>

\* no commitment is computed
MerkleUnused ==
    /\ rows = <<>>
    /\ samples = {}
    /\ layers = <<>>
    /\ rootFile = <<>>
    /\ proofFiles = {}
    /\ mstatus = "unused"
    /\ vin = NoProof
    /\ vorig = NoProof
    /\ valter = "none"
    /\ vstatus = "none"
    /\ vout = NoReport

\* one post() on a pool of its own, answered with any outcome
PostInit ==
    /\ MerkleUnused
    /\ OthersUnused
    /\ max_retries \in 0..MaxRetries
    /\ concurrency \in 0..MaxConcurrency
    /\ inject = Outcomes
    /\ \E P \in 1..MaxUrls : RpcPool(P, {1})

\* the endpoint answers the attempt of caller c with one of its outcomes
Answer(c) == \E o \in inject : Respond(c, o)

PostNext == Post(1) \/ Answer(1) \/ Wake(1)

SpecPost == PostInit /\ [][PostNext]_vars

\* the outcomes the endpoints answer concurrent calls with: a success, a
\* retried status, a body that is no JSON, a timeout
PoolOutcomes == {"ok", "s429", "malformed", "timeout"}

\* several post() calls running on one pool
PoolInit ==
    /\ MerkleUnused
    /\ OthersUnused
    /\ max_retries \in 1..MaxRetries
    /\ concurrency \in 0..MaxConcurrency
    /\ inject = PoolOutcomes
    /\ \E P \in 1..MaxUrls : RpcPool(P, 1..NumCallers)

PoolNext ==
    \/ \E c \in 1..NumCallers : Post(c)
    \/ \E c \in 1..NumCallers : Acquire(c)
    \/ \E c \in 1..NumCallers : Answer(c)
    \/ \E c \in 1..NumCallers : Wake(c)

SpecPool == PoolInit /\ [][PoolNext]_vars

----------------------------------------------------------------------------
(* utils_eth.py: the construction of a pool, its session and close(), and   *)
(* the three programs that create a pool                                    *)

MaxCloses == 3

Comma == 44
Space == 32

\* str.split(","): the pieces between the commas, empty pieces included
RECURSIVE Split(_, _)
Split(t, acc) ==
    IF t = <<>> THEN <<acc>>
    ELSE IF Head(t) = Comma THEN <<acc>> \o Split(Tail(t), <<>>)
    ELSE Split(Tail(t), Append(acc, Head(t)))

\* [u.strip() for u in us if u.strip()]
RECURSIVE StripAll(_)
StripAll(us) ==
    IF us = <<>> THEN <<>>
    ELSE LET u == Strip(Head(us))
         IN  (IF u = <<>> THEN <<>> ELSE <<u>>) \o StripAll(Tail(us))

\* _parse_urls: a str is split on commas, a list is taken as it is, None is
\* the empty list; blank entries are dropped
parse_urls(a) ==
    CASE a.kind = "str" -> StripAll(Split(a.val, <<>>))
      [] a.kind = "list" -> StripAll(a.val)
      [] OTHER -> <<>>

\* the five built-in public endpoints, each written as one character
FREE_RPC_FALLBACKS == <<(<<49>>), (<<50>>), (<<51>>), (<<52>>), (<<53>>)>>

\* Python's "x or y" on lists
OrElse(x, y) == IF x # <<>> THEN x ELSE y

\* os.getenv("ETH_RPC_URL", ""), parsed
env_urls(e) == parse_urls([kind |-> "str", val |-> e])

ResolveUrlsNoFallback(a, e) == OrElse(parse_urls(a), env_urls(e))

\* self.urls = _parse_urls(urls) or env_urls or FREE_RPC_FALLBACKS[:]
ResolveUrls(a, e) == OrElse(OrElse(parse_urls(a), env_urls(e)), FREE_RPC_FALLBACKS)

None == [kind |-> "None", val |-> <<>>]
StrArg(t) == [kind |-> "str", val |-> t]
ListArg(l) == [kind |-> "list", val |-> l]

UrlA == <<97>>
UrlB == <<98>>
UrlE == <<101>>

\* the values the urls argument is given: None, strings and lists, some of
\* them empty or blank
UrlArgs ==
    {None, StrArg(<<>>), StrArg(<<Space, Comma, Space>>), StrArg(UrlA),
     StrArg(UrlA \o <<Comma, Space>> \o UrlB),
     ListArg(<<>>), ListArg(<<(<<Space>>)>>), ListArg(<<UrlA>>),
     ListArg(<<UrlA, <<Space>> \o UrlB>>)}

\* the values of ETH_RPC_URL: unset or empty, blank, one endpoint
EnvValues == {<<>>, <<Space>>, UrlE}

Programs == {"harvester", "pipeline", "token"}
Owners == Programs \cup {"direct"}

\* the urls argument each program passes: harvest_candidates and
\* token_multicall_simple pass none, bulletproof_pipeline os.getenv("ETH_RPC_URL")
ProgramArg(o, e) ==
    CASE o = "pipeline" -> {None, StrArg(e)}
      [] o = "direct" -> UrlArgs
      [] OTHER -> {None}

SessionInit ==
    /\ SignerUnused
    /\ MerkleUnused
    /\ BatchUnused
    /\ HarvestUnused
    /\ owner \in Owners
    /\ envUrl \in EnvValues
    /\ urlsArg \in ProgramArg(owner, envUrl)
    /\ pstat = "new"
    /\ session = "None"
    /\ opened = 0
    /\ released = 0
    /\ closeCalls = 0
    /\ spc = "body"
    /\ sexit = "none"
    /\ urls = <<>>
    /\ rr = 0
    /\ rr0 = 0
    /\ concurrency \in 0..MaxConcurrency
    /\ sem = 0
    /\ max_retries = 0
    /\ inject = {}
    /\ call = <<>>
    /\ picks = <<>>

\* RpcPool.__init__: the endpoints are resolved, an empty result raises
\* ValueError; the constructor runs before the try block of every program
Construct ==
    /\ pstat = "new"
    /\ LET us == ResolveUrls(urlsArg, envUrl)
       IN  IF us = <<>>
           THEN /\ pstat' = "raised"
                /\ spc' = "done"
                /\ sexit' = "error"
                /\ UNCHANGED <<urls, rr, rr0, sem>>
           ELSE /\ pstat' = "constructed"
                /\ urls' = us
                /\ rr0' \in 0..(Len(us) - 1)
                /\ rr' = rr0'
                /\ sem' = SemaphoreSize(concurrency)
                /\ UNCHANGED <<spc, sexit>>
    /\ session' = "None"
    /\ UNCHANGED <<owner, urlsArg, envUrl, opened, released, closeCalls>>
    /\ UNCHANGED <<concurrency, max_retries, inject, call, picks>>
    /\ UNCHANGED <<mvars, bvars, hvars, dvars>>

\* _client, entered by every attempt of post(): a session is created when
\* there is none or the last one is closed
Client ==
    /\ pstat = "constructed"
    /\ spc = "body"
    /\ session # "open"
    /\ session' = "open"
    /\ opened' = opened + 1
    /\ UNCHANGED <<owner, urlsArg, envUrl, pstat, released, closeCalls, spc, sexit>>
    /\ UNCHANGED <<mvars, pvars, bvars, hvars, dvars>>

\* the effect of close() on the session: an open one is closed
CloseSession(s) == IF s = "open" THEN "closed" ELSE s

\* RpcPool.close(), which does not raise; a program calls it where its code
\* does, a bare caller whenever it likes
close ==
    /\ pstat = "constructed"
    /\ \/ owner = "direct" /\ spc = "body" /\ closeCalls < MaxCloses /\ UNCHANGED spc
       \/ owner \in Programs /\ spc = "finally" /\ spc' = "done"
    /\ session' = CloseSession(session)
    /\ released' = IF session' # session THEN released + 1 ELSE released
    /\ closeCalls' = closeCalls + 1
    /\ UNCHANGED <<owner, urlsArg, envUrl, pstat, opened, sexit>>
    /\ UNCHANGED <<mvars, pvars, bvars, hvars, dvars>>

\* the body of a program ends normally: main_async falls out of its try block
\* (or returns from it), run_pipeline's asyncio.run returns, and
\* fetch_token_balances reaches its last statements; close() comes next
BodyEnds ==
    /\ pstat = "constructed"
    /\ owner \in Programs
    /\ spc = "body"
    /\ spc' = "finally"
    /\ sexit' = "normal"
    /\ UNCHANGED <<owner, urlsArg, envUrl, pstat, session, opened, released, closeCalls>>
    /\ UNCHANGED <<mvars, pvars, bvars, hvars, dvars>>

\* the body of a program raises: main_async and run_pipeline close the pool
\* in a finally block, fetch_token_balances has none and the error leaves it
BodyRaises ==
    /\ pstat = "constructed"
    /\ owner \in Programs
    /\ spc = "body"
    /\ spc' = IF owner = "token" THEN "done" ELSE "finally"
    /\ sexit' = "error"
    /\ UNCHANGED <<owner, urlsArg, envUrl, pstat, session, opened, released, closeCalls>>
    /\ UNCHANGED <<mvars, pvars, bvars, hvars, dvars>>

SessionNext == Construct \/ Client \/ close \/ BodyEnds \/ BodyRaises

SpecSession == SessionInit /\ [][SessionNext]_vars

----------------------------------------------------------------------------
(* One batched JSON-RPC request and the re-association of its response:     *)
(* fetch_batch_blocks of harvest_candidates.py and batch_eth_getBalance of  *)
(* bulletproof_pipeline.py                                                  *)

MaxAddrs == 2

\* a variant that leaves out the last, shorter chunk
chunk_listFullOnly(xs, n) ==
    IF n <= 0 \/ n >= Len(xs) THEN <<xs>>
    ELSE [k \in 1..(Len(xs) \div n) |-> SubSeq(xs, (k - 1) * n + 1, k * n)]

\* chunk_list(xs, n): xs as it is when n <= 0 or n >= len(xs), else slices
\* of n elements, the last one shorter
chunk_list(xs, n) ==
    IF n <= 0 \/ n >= Len(xs) THEN <<xs>>
    ELSE [k \in 1..((Len(xs) + n - 1) \div n) |->
              SubSeq(xs, (k - 1) * n + 1, Min(k * n, Len(xs)))]

Failed == [ok |-> FALSE, v |-> 0]
Value(x) == [ok |-> TRUE, v |-> x]

\* int(s) of a str of decimal digits; anything else raises
RECURSIVE DecInt(_, _)
DecInt(t, acc) ==
    IF t = <<>> THEN Value(acc)
    ELSE IF Head(t) \in 48..57 THEN DecInt(Tail(t), 10 * acc + (Head(t) - 48))
    ELSE Failed

\* int(x) for the id of an item: an int is itself, a str is parsed, None raises
PyInt(x) ==
    CASE x.t = "int" -> Value(x.v)
      [] x.t = "str" /\ x.v # <<>> -> DecInt(x.v, 0)
      [] OTHER -> Failed

RECURSIVE HexValue(_, _)
HexValue(t, acc) ==
    IF t = <<>> THEN Value(acc)
    ELSE IF Nibble(Head(t)) >= 0 THEN HexValue(Tail(t), 16 * acc + Nibble(Head(t)))
    ELSE Failed

\* int(x, 16): a str of hexadecimal digits in either case, with or without
\* the prefix 0x; anything else raises
Int16(x) ==
    IF x.t # "str" THEN Failed
    ELSE LET t == x.v
             digits == IF Len(t) >= 2 /\ t[1] = 48 /\ t[2] \in {120, 88}
                       THEN SubSeq(t, 3, Len(t)) ELSE t
         IN  IF digits = <<>> THEN Failed ELSE HexValue(digits, 0)

TruthyAlways(x) == TRUE

\* the truth value Python gives a JSON value; the objects of a JSON-RPC
\* response have members and are true
Truthy(x) ==
    CASE x.t = "null" -> FALSE
      [] x.t \in {"str", "list"} -> x.v # <<>>
      [] x.t = "int" -> x.v # 0
      [] OTHER -> TRUE

\* seq[idx] of Python: a negative index counts from the end
PyIndex(n, idx) ==
    IF 0 <= idx /\ idx < n THEN Value(idx + 1)
    ELSE IF -n <= idx /\ idx < 0 THEN Value(n + idx + 1)
    ELSE Failed

\* an item of a batched response: a JSON object with an id and a result, or
\* something that is no object
Item(id, result) == [shape |-> "dict", id |-> id, result |-> result]
NonDictItem == [shape |-> "str", id |-> Null, result |-> Null]
IntId(k) == [t |-> "int", v |-> k]

ItemIdZero(it) == Value(0)

\* int(it.get("id")); a failure stands for the exception it raises
ItemId(it) == IF it.shape = "dict" THEN PyInt(it.id) ELSE Failed

\* what pool.post returns: (False, {"error": ...}) or (True, data)
PostFailed == [ok |-> FALSE, data |-> Dict(<<>>)]
PostOk(data) == [ok |-> TRUE, data |-> data]

\* the loop of fetch_batch_blocks over the response
RECURSIVE AssocBlocks(_, _, _)
AssocBlocks(n, items, results) ==
    IF items = <<>> THEN results
    ELSE LET it == Head(items)
             idx == ItemId(it)
         IN  AssocBlocks(n, Tail(items),
                 IF idx.ok /\ 0 <= idx.v /\ idx.v < n
                 THEN [results EXCEPT ![idx.v + 1] = it.result]
                 ELSE results)

\* fetch_batch_blocks(pool, blocks), r being what pool.post returned: [] for
\* no blocks, None for a failed batch, else one result or None per block
fetch_batch_blocks(blocks, r) ==
    IF blocks = <<>> THEN List(<<>>)
    ELSE IF ~r.ok \/ r.data.t # "list" THEN Null
    ELSE List(AssocBlocks(Len(blocks), r.data.v, [i \in 1..Len(blocks) |-> Null]))

\* d[k] = x on a dict
Put(d, k, x) == (k :> x) @@ d

\* the loop of batch_eth_getBalance over the response of one chunk
RECURSIVE AssocBalances(_, _, _)
AssocBalances(chunk, items, bal) ==
    IF items = <<>> THEN bal
    ELSE LET it == Head(items)
             idx == ItemId(it)
             pos == IF idx.ok THEN PyIndex(Len(chunk), idx.v) ELSE Failed
             wei == IF Truthy(it.result) THEN Int16(it.result) ELSE Value(0)
         IN  AssocBalances(chunk, Tail(items),
                 IF pos.ok /\ wei.ok
                 THEN Put(bal, chunk[pos.v], IF wei.v # 0 THEN Ether(wei.v) ELSE Zero)
                 ELSE bal)

RECURSIVE PutAll(_, _, _)
PutAll(d, ks, x) == IF ks = <<>> THEN d ELSE PutAll(Put(d, Head(ks), x), Tail(ks), x)

\* one round of the loop of batch_eth_getBalance: a failed request gives
\* every address of the chunk 0.0, a response that is no list gives nothing
BalanceChunk(chunk, r, bal) ==
    IF ~r.ok THEN PutAll(bal, chunk, Zero)
    ELSE AssocBalances(chunk, IF r.data.t = "list" THEN r.data.v ELSE <<>>, bal)

LookupNoFill(d, k) == IF k \in DOMAIN d THEN d[k] ELSE Ether(-1)

\* df["address"].map(balances).fillna(0).astype(float), for one address
Lookup(d, k) == IF k \in DOMAIN d THEN d[k] ELSE Zero

\* the results a node may give: null, two balances, a text that is no number
ResultValues == {Null, Str(<<48, 120, 53>>), Str(<<48, 120, 49, 65>>), Str(<<122, 122>>)}

\* the ids an item of a response to n requests may carry: the ids of the
\* requests, one below and one above them, none, and "0" as a string
Ids(n) == {IntId(k) : k \in -1..n} \cup {Null, Str(<<48>>)}

Items(n) == {Item(id, x) : id \in Ids(n), x \in ResultValues} \cup {NonDictItem}

\* what pool.post may return for a batch of n requests
PostResults(n) ==
    {PostFailed, PostOk(Dict(<<>>))} \cup {PostOk(List(l)) : l \in SeqsUpTo(Items(n), n)}

Chunks == chunk_list(bsubjects, bbatch)

BatchInit ==
    /\ SignerUnused
    /\ MerkleUnused
    /\ PoolUnused
    /\ SessionUnused
    /\ HarvestUnused
    /\ bprog \in {"blocks", "balances"}
    /\ \E n \in 0..MaxAddrs : bsubjects = [i \in 1..n |-> i]
    /\ bbatch \in IF bprog = "balances" THEN 0..MaxAddrs ELSE {0}
    /\ bi = 0
    /\ balances = <<>>
    /\ bresults = Null
    /\ blog = <<>>
    /\ bstat = "start"
    /\ eth_balance = <<>>

\* one call of fetch_batch_blocks; no request is made for an empty list
FetchBatchBlocks ==
    /\ bprog = "blocks"
    /\ bstat = "start"
    /\ \E r \in IF bsubjects = <<>> THEN {PostFailed} ELSE PostResults(Len(bsubjects)) :
          /\ bresults' = fetch_batch_blocks(bsubjects, r)
          /\ blog' = IF bsubjects = <<>> THEN <<>> ELSE <<r>>
    /\ bstat' = "returned"
    /\ UNCHANGED <<bprog, bsubjects, bbatch, bi, balances, eth_balance>>
    /\ UNCHANGED <<mvars, pvars, svars, hvars, dvars>>

\* batch_eth_getBalance up to its next await: {} at once for no addresses,
\* else the request of the next chunk and the handling of its response
BatchEthGetBalance ==
    /\ bprog = "balances"
    /\ bstat \in {"start", "run"}
    /\ IF bsubjects = <<>>
       THEN /\ bstat' = "returned"
            /\ UNCHANGED <<bi, balances, blog>>
       ELSE \E r \in PostResults(Len(Chunks[bi + 1])) :
               /\ balances' = BalanceChunk(Chunks[bi + 1], r, balances)
               /\ blog' = Append(blog, r)
               /\ bi' = bi + 1
               /\ bstat' = IF bi' = Len(Chunks) THEN "returned" ELSE "run"
    /\ UNCHANGED <<bprog, bsubjects, bbatch, bresults, eth_balance>>
    /\ UNCHANGED <<mvars, pvars, svars, hvars, dvars>>

\* run_pipeline: the eth_balance column, one value per candidate address
MapBalances ==
    /\ bprog = "balances"
    /\ bstat = "returned"
    /\ eth_balance' = [k \in 1..Len(bsubjects) |-> Lookup(balances, bsubjects[k])]
    /\ bstat' = "mapped"
    /\ UNCHANGED <<bprog, bsubjects, bbatch, bi, balances, bresults, blog>>
    /\ UNCHANGED <<mvars, pvars, svars, hvars, dvars>>

BatchNext == FetchBatchBlocks \/ BatchEthGetBalance \/ MapBalances

SpecBatch == BatchInit /\ [][BatchNext]_vars

----------------------------------------------------------------------------
(* harvest_candidates.py: main_async, the sweep over the block range; what  *)
(* pool.post returns stands for the request (post never raises)             *)

MaxLatest == 4

BATCH_RETRIES == 3
SINGLE_RETRIES == 3

\* range(1, 5): the tries at eth_blockNumber
LatestAttempts == 4

\* the values of --batch-size and of --lookback-blocks
BatchSizes == {1, 2}
Lookbacks == {0, MaxLatest}

\* hex(n) for n below 16
HexOf(n) == Str(<<48, 120, HexDigit(n)>>)

LatestSleepFlat(attempt) == 4

\* asyncio.sleep(min(10, 0.4 * attempt)), in tenths of a second
LatestSleep(attempt) == Min(100, 4 * attempt)

\* the block number main_async reads from the response to eth_blockNumber:
\* int(br["result"], 16) of an object with a result, int(br, 16) of a str
DecodeLatest(r) ==
    IF ~r.ok THEN Failed
    ELSE LET viaResult == IF r.data.t = "dict" /\ r.data.v # <<>>
                          THEN Int16(r.data.v[1]) ELSE Failed
         IN  IF viaResult.ok THEN viaResult
             ELSE IF r.data.t = "str" THEN Int16(r.data)
             ELSE Failed

\* list(range(a, b + 1))
Range(a, b) == [i \in 1..(b - a + 1) |-> a + i - 1]

\* start = max(1, latest - int(lookback_blocks))
SweepStart(l, lb) == Max(1, l - lb)

\* the chunks of the sweep
HChunks == chunk_list(Range(SweepStart(latest, lookback_blocks), latest), batch_size)

\* fetch_block_single, r being what pool.post returned: None for a failure,
\* the result of an object that has one, else the response as it is
fetch_block_single(r) ==
    IF ~r.ok THEN Null
    ELSE IF r.data.t = "dict" /\ r.data.v # <<>> THEN r.data.v[1]
    ELSE r.data

\* the transactions of the blocks of the chain, by sender and receiver: plain
\* addresses in lower, upper and checksum case, a text that is no address,
\* no receiver (a contract creation), and a receiver that is a JSON array
Transactions(b) ==
    CASE b % 4 = 1 -> <<[from |-> "0xab", to |-> "0xCD"]>>
      [] b % 4 = 2 -> <<[from |-> "0xzz", to |-> "None"]>>
      [] b % 4 = 3 -> <<[from |-> "0xAb", to |-> "[1]"]>>
      [] OTHER -> <<>>

\* Web3.toChecksumAddress on the addresses of the chain: the checksum case of
\* an address in any case; any other value raises
Checksummed ==
    [a \in {"0xab", "0xAB", "0xAb", "0xcd", "0xCD", "0xCd"} |->
        IF a \in {"0xab", "0xAB", "0xAb"} THEN "0xAb" ELSE "0xCd"]

toChecksumAddress(a) == IF a \in DOMAIN Checksummed THEN Value(Checksummed[a]) ELSE Failed

\* None and "" are false; a list cannot be a member of a set
FalsyAddr(a) == a \in {"None", ""}
Unhashable(a) == a = "[1]"

AddAddressOrDrop(S, a) ==
    IF FalsyAddr(a) THEN S
    ELSE IF toChecksumAddress(a).ok THEN S \cup {toChecksumAddress(a).v}
    ELSE S

\* if frm: try: addrs.add(Web3.toChecksumAddress(frm))
\*          except: try: addrs.add(frm) except: pass
AddAddress(S, a) ==
    IF FalsyAddr(a) THEN S
    ELSE IF toChecksumAddress(a).ok THEN S \cup {toChecksumAddress(a).v}
    ELSE IF Unhashable(a) THEN S
    ELSE S \cup {a}

RECURSIVE ExtractTransactions(_, _)
ExtractTransactions(S, txs) ==
    IF txs = <<>> THEN S
    ELSE ExtractTransactions(AddAddress(AddAddress(S, Head(txs).from), Head(txs).to), Tail(txs))

\* the loop of main_async over the results of a chunk: None and other false
\* items are skipped, a block gives its addresses, an object without
\* transactions gives none, and any other item has no get(): AttributeError
RECURSIVE ProcessResults(_, _)
ProcessResults(items, S) ==
    IF items = <<>> THEN Value(S)
    ELSE LET it == Head(items)
         IN  IF ~Truthy(it) THEN ProcessResults(Tail(items), S)
             ELSE IF it.t = "block"
                  THEN ProcessResults(Tail(items), ExtractTransactions(S, Transactions(it.v)))
             ELSE IF it.t = "dict" THEN ProcessResults(Tail(items), S)
             ELSE Failed

CooldownDueAfterTwo(c) == c >= 2

\* if consecutive_batch_failures >= 3
CooldownDue(c) == c >= 3

\* what pool.post may return for eth_blockNumber
LatestReplies ==
    {PostFailed, PostOk(Dict(<<>>)), PostOk(Dict(<<Null>>)), PostOk(List(<<>>)),
     PostOk(Str(<<122, 122>>))}
    \cup {PostOk(Dict(<<HexOf(n)>>)) : n \in 0..MaxLatest}
    \cup {PostOk(HexOf(n)) : n \in 0..MaxLatest}

\* what a node may give for one block of a batch: the block, null, a text
MemberResults(b) == {Block(b), Null, Str(<<122, 122>>)}

Absent == [t |-> "absent", v |-> 0]

RECURSIVE AnswerItems(_, _, _)
AnswerItems(f, i, n) ==
    IF i > n THEN <<>>
    ELSE (IF f[i] = Absent THEN <<>> ELSE <<Item(IntId(i - 1), f[i])>>) \o AnswerItems(f, i + 1, n)

Reverse(q) == [i \in 1..Len(q) |-> q[Len(q) + 1 - i]]

\* what pool.post may return for the batch of a chunk: a failure, an object,
\* or a list of answers, some of them missing, in request order or reversed
BatchReplies(chunk) ==
    LET n == Len(chunk)
        fs == {f \in [1..n -> UNION {MemberResults(chunk[i]) : i \in 1..n} \cup {Absent}] :
                  \A i \in 1..n : f[i] \in MemberResults(chunk[i]) \cup {Absent}}
    IN  {PostFailed, PostOk(Dict(<<>>))}
        \cup {PostOk(List(AnswerItems(f, 1, n))) : f \in fs}
        \cup {PostOk(List(Reverse(AnswerItems(f, 1, n)))) : f \in fs}

\* what pool.post may return for the single request of block b
SingleReplies(b) ==
    {PostFailed, PostOk(Dict(<<Block(b)>>)), PostOk(Dict(<<Null>>)), PostOk(Dict(<<>>)),
     PostOk(List(<<>>)), PostOk(Str(<<122, 122>>))}

\* the session of the pool along a step of main_async: a request opens it if
\* it is not open, and leaving the try block closes the pool (finally)
SessionStep(posted, exit) ==
    LET s1 == IF posted THEN "open" ELSE session
    IN  /\ opened' = IF posted /\ session # "open" THEN opened + 1 ELSE opened
        /\ IF exit = "none"
           THEN /\ session' = s1
                /\ UNCHANGED <<released, closeCalls, spc, sexit>>
           ELSE /\ session' = CloseSession(s1)
                /\ released' = IF s1 = "open" THEN released + 1 ELSE released
                /\ closeCalls' = closeCalls + 1
                /\ spc' = "done"
                /\ sexit' = exit
        /\ UNCHANGED <<owner, urlsArg, envUrl, pstat>>

\* a variant of the task that only ends when it has a block
TaskDoneOnSuccess(blk, tries) == blk # Null

\* fetch_block_with_retries returns: with the block fetched, or with None
\* after the last of its tries
TaskDone(blk, tries) == blk # Null \/ tries = SINGLE_RETRIES

IdleTask == [tries |-> 0, blk |-> Null, done |-> FALSE]

HarvestInit ==
    /\ SignerUnused
    /\ MerkleUnused
    /\ PoolUnused
    /\ BatchUnused
    /\ owner = "harvester"
    /\ urlsArg = None
    /\ envUrl = <<>>
    /\ pstat = "constructed"
    /\ session = "None"
    /\ opened = 0
    /\ released = 0
    /\ closeCalls = 0
    /\ spc = "body"
    /\ sexit = "none"
    /\ hpc = "latest"
    /\ latest_attempt = 0
    /\ hsleeps = <<>>
    /\ latest = -1
    /\ lookback_blocks \in Lookbacks
    /\ batch_size \in BatchSizes
    /\ ci = 0
    /\ br_attempt = 0
    /\ singles = <<>>
    /\ res = <<>>
    /\ consecutive_batch_failures = 0
    /\ addrs = {}
    /\ outFile = NoFile
    /\ hlog = <<>>
    /\ processed = 0
    /\ visited = <<>>

\* one round of the loop over eth_blockNumber: the request and its decoding;
\* after the last failed try the header-only file is written and main_async
\* returns
ResolveLatest ==
    /\ hpc = "latest"
    /\ \E r \in LatestReplies :
          LET n == DecodeLatest(r)
              attempt == latest_attempt + 1
          IN  /\ latest_attempt' = attempt
              /\ IF n.ok
                 THEN /\ latest' = n.v
                      /\ hpc' = "batch"
                      /\ ci' = 1
                      /\ SessionStep(TRUE, "none")
                      /\ UNCHANGED <<hsleeps, outFile>>
                 ELSE /\ hsleeps' = Append(hsleeps, LatestSleep(attempt))
                      /\ UNCHANGED <<latest, ci>>
                      /\ IF attempt = LatestAttempts
                         THEN /\ outFile' = [written |-> TRUE, rows |-> {}]
                              /\ hpc' = "returned"
                              /\ SessionStep(TRUE, "normal")
                         ELSE /\ SessionStep(TRUE, "none")
                              /\ UNCHANGED <<hpc, outFile>>
    /\ UNCHANGED <<lookback_blocks, batch_size, br_attempt, singles, res,
                   consecutive_batch_failures, addrs, hlog, processed, visited>>
    /\ UNCHANGED <<mvars, pvars, bvars, dvars>>

\* one round of the loop over fetch_batch_blocks for the current chunk; when
\* the last batched request has failed, the counter goes up and one
\* fetch_block_with_retries task per block is made
BatchTry ==
    /\ hpc = "batch"
    /\ LET chunk == HChunks[ci]
       IN  \E r \in IF chunk = <<>> THEN {PostFailed} ELSE BatchReplies(chunk) :
              LET blk_results == fetch_batch_blocks(chunk, r)
              IN  /\ br_attempt' = br_attempt + 1
                  /\ visited' = IF br_attempt = 0 THEN visited \o chunk ELSE visited
                  /\ SessionStep(chunk # <<>>, "none")
                  /\ IF blk_results # Null
                     THEN /\ consecutive_batch_failures' = 0
                          /\ res' = blk_results.v
                          /\ hpc' = "process"
                          /\ UNCHANGED singles
                     ELSE IF br_attempt' = BATCH_RETRIES
                     THEN /\ consecutive_batch_failures' = consecutive_batch_failures + 1
                          /\ singles' = [m \in 1..Len(chunk) |-> IdleTask]
                          /\ hpc' = "single"
                          /\ UNCHANGED res
                     ELSE UNCHANGED <<consecutive_batch_failures, res, singles, hpc>>
    /\ UNCHANGED <<latest_attempt, hsleeps, latest, lookback_blocks, batch_size, ci,
                   addrs, outFile, hlog, processed>>
    /\ UNCHANGED <<mvars, pvars, bvars, dvars>>

\* one round of fetch_block_with_retries for a block of the current chunk;
\* gather returns when every task has returned
SingleTry ==
    /\ hpc = "single"
    /\ \E m \in 1..Len(singles) :
          /\ ~singles[m].done
          /\ \E r \in SingleReplies(HChunks[ci][m]) :
                LET blk == fetch_block_single(r)
                    tries == singles[m].tries + 1
                    task == [tries |-> tries, blk |-> blk, done |-> TaskDone(blk, tries)]
                IN  /\ singles' = [singles EXCEPT ![m] = task]
                    /\ IF \A k \in 1..Len(singles) : singles'[k].done
                       THEN /\ res' = [k \in 1..Len(singles) |-> singles'[k].blk]
                            /\ hpc' = "process"
                       ELSE UNCHANGED <<res, hpc>>
    /\ SessionStep(TRUE, "none")
    /\ UNCHANGED <<latest_attempt, hsleeps, latest, lookback_blocks, batch_size, ci,
                   br_attempt, consecutive_batch_failures, addrs, outFile, hlog,
                   processed, visited>>
    /\ UNCHANGED <<mvars, pvars, bvars, dvars>>

\* the rest of the body of the loop over the chunks: the addresses of the
\* results, the counter of processed blocks (not reached when a result
\* raises), the progress line (batch[0] of an empty chunk: IndexError), the
\* cooldown; after the last chunk the file is written and main_async returns
Process ==
    /\ hpc = "process"
    /\ LET chunk == HChunks[ci]
           got == IF chunk = <<>> THEN Failed ELSE ProcessResults(res, addrs)
           cooldown == got.ok /\ CooldownDue(consecutive_batch_failures)
           entry == [failed |-> singles # <<>>, res |-> res, raised |-> ~got.ok,
                     cooldown |-> cooldown]
       IN  /\ hlog' = Append(hlog, entry)
           /\ processed' = IF got.ok THEN processed + Len(chunk) ELSE processed
           /\ IF ~got.ok
              THEN /\ hpc' = "raised"
                   /\ SessionStep(FALSE, "error")
                   /\ UNCHANGED <<addrs, consecutive_batch_failures, ci, outFile>>
              ELSE /\ addrs' = got.v
                   /\ consecutive_batch_failures' =
                          IF cooldown THEN 0 ELSE consecutive_batch_failures
                   /\ IF ci = Len(HChunks)
                      THEN /\ outFile' = [written |-> TRUE, rows |-> addrs']
                           /\ hpc' = "returned"
                           /\ SessionStep(FALSE, "normal")
                           /\ UNCHANGED ci
                      ELSE /\ ci' = ci + 1
                           /\ hpc' = "batch"
                           /\ SessionStep(FALSE, "none")
                           /\ UNCHANGED outFile
    /\ br_attempt' = 0
    /\ singles' = <<>>
    /\ res' = <<>>
    /\ UNCHANGED <<latest_attempt, hsleeps, latest, lookback_blocks, batch_size, visited>>
    /\ UNCHANGED <<mvars, pvars, bvars, dvars>>

HarvestNext == ResolveLatest \/ BatchTry \/ SingleTry \/ Process

SpecHarvest == HarvestInit /\ [][HarvestNext]_vars

----------------------------------------------------------------------------
(* proof_and_sample.py: the sample, the manifest and its signature          *)

MaxRows == 2

\* head(min(50, len(df)))
TopRows == 50

LF == 10
CRLF == <<13, 10>>

\* a text file as the platform stores it (Path.write_text, DataFrame.to_csv):
\* on windows every line ends in CR LF
RECURSIVE WriteText(_, _)
WriteText(t, plat) ==
    IF t = <<>> THEN <<>>
    ELSE (IF Head(t) = LF /\ plat = "windows" THEN CRLF ELSE <<Head(t)>>)
             \o WriteText(Tail(t), plat)

\* the lines of a text, each ended by a line feed
RECURSIVE Lines(_)
Lines(ls) == IF ls = <<>> THEN <<>> ELSE Head(ls) \o <<LF>> \o Lines(Tail(ls))

\* a table of one column as CSV text: the header, then one value per line
Csv(header, vals) == Lines(<<header>> \o [i \in 1..Len(vals) |-> <<vals[i]>>])

UsdHeader == <<117>>
OtherHeader == <<120>>

\* the bytes of the dataset file
DatasetBytes(d) == Csv(IF d.usd_value THEN UsdHeader ELSE OtherHeader, d.rows)

\* sha256_file(path): the hex digest of the bytes of the file
sha256_file(bytes) == Hex(Sha256(bytes))

\* sort_values('usd_value', ascending=False)
RECURSIVE InsertDesc(_, _)
InsertDesc(q, x) ==
    IF q = <<>> THEN <<x>>
    ELSE IF x > Head(q) THEN <<x>> \o q
    ELSE <<Head(q)>> \o InsertDesc(Tail(q), x)

RECURSIVE SortDesc(_)
SortDesc(q) == IF q = <<>> THEN <<>> ELSE InsertDesc(SortDesc(Tail(q)), Head(q))

\* drop_duplicates(): the first of equal rows stays
RECURSIVE DropDuplicates(_)
DropDuplicates(q) ==
    IF q = <<>> THEN <<>>
    ELSE LET front == DropDuplicates(SubSeq(q, 1, Len(q) - 1))
         IN  IF \E i \in 1..Len(front) : front[i] = Last(q) THEN front
             ELSE Append(front, Last(q))

\* head(n) for n >= 0
HeadRows(q, n) == SubSeq(q, 1, Min(n, Len(q)))

\* rem.sample(n): n rows of rem, in any order
SampleRows(rem, n) ==
    {[i \in 1..n |-> rem[f[i]]] :
        f \in {g \in [1..n -> 1..Len(rem)] : \A a, b \in 1..n : a # b => g[a] # g[b]}}

\* the samples the script may draw from the rows: the top rows by value and
\* a random choice among the others, without duplicates, cut to the size
Samples(rs, size) ==
    LET sorted == SortDesc(rs)
        top == HeadRows(sorted, Min(TopRows, Len(rs)))
        rem == SubSeq(sorted, Len(top) + 1, Len(sorted))
        n_rand == Max(0, size - Len(top))
        rands == IF Len(rem) > 0 /\ n_rand > 0
                 THEN SampleRows(rem, Min(n_rand, Len(rem)))
                 ELSE {<<>>}
    IN  {HeadRows(DropDuplicates(top \o rand), size) : rand \in rands}

DatasetName == <<100>>
SampleFile == "sample_preview.csv"
SampleName == <<115>>
ManifestFile == "manifest.json"
SignatureFile == "manifest.json.sig"
PublicKeyFile == "ed25519_public.pem"
RootFileName == <<109>>

\* json.dumps(manifest, indent=2): one line per brace and per entry
ManifestText(datasetSha, sampleSha, t) ==
    Lines(<<(<<123>>), DatasetName, datasetSha, SampleName, sampleSha, RootFileName,
            (<<48 + t>>)>>) \o <<125>>

\* the PEM of a private key, and of the public key derived from it
PrivatePem(k) == <<45, 112, k.id>>
PublicPem(k) == <<45, 80, 100 + k.id>>

\* serialization.load_pem_private_key(priv_bytes, password=None): the key of
\* the file, or an error for bytes that are no key
load_pem_private_key(file) ==
    IF file.kind \in {"ed25519", "rsa"} THEN Value([alg |-> file.kind, id |-> file.id])
    ELSE Failed

\* Ed25519PrivateKey.generate(): the keys a run may draw
GeneratedKeys == {[alg |-> "ed25519", id |-> i] : i \in {3, 4}}

\* sk.sign(data): a signature that names the public key and the data; a key
\* of another scheme needs further arguments and raises TypeError
Sign(k, data) ==
    IF k.alg = "ed25519" THEN Value(<<83, 100 + k.id>> \o data) ELSE Failed

\* pk.public_bytes(PEM, SubjectPublicKeyInfo) of pk = sk.public_key()
Published(k) == PublicPem(k)

\* a variant that signs the text held in memory
SignedDataInMemory(files, text) == text

\* mpath.read_bytes(): the bytes of the manifest file
SignedData(files, text) == files[ManifestFile]

\* path.write_bytes / write_text / to_csv: the file is made or replaced
WriteFile(files, name, bytes) == (name :> bytes) @@ files

\* the files --privkey may name: none, a file that is no key, an Ed25519
\* key, a key of another scheme
KeyFiles ==
    {[given |-> TRUE, kind |-> "missing", id |-> 0],
     [given |-> TRUE, kind |-> "garbage", id |-> 0],
     [given |-> TRUE, kind |-> "ed25519", id |-> 1],
     [given |-> TRUE, kind |-> "rsa", id |-> 2]}

Datasets ==
    {NoData}
    \cup {[rows |-> r, exists |-> TRUE, usd_value |-> u] :
            r \in SeqsUpTo({1, 2}, MaxRows), u \in BOOLEAN}

SignerInit ==
    /\ MerkleUnused
    /\ PoolUnused
    /\ SessionUnused
    /\ BatchUnused
    /\ HarvestUnused
    /\ dpc = "start"
    /\ dataset \in Datasets
    /\ sample_size \in {1, 100}
    /\ privkey \in KeyFiles \cup {NoKeyFile}
    /\ platform \in {"posix", "windows"}
    /\ now \in {0, 1}
    /\ manifest = <<>>
    /\ sk = NoKey
    /\ outdir = <<>>
    /\ signed = <<>>

\* the dataset is read and the sample written; a file that is missing or has
\* no usd_value column makes the script raise
WriteSample ==
    /\ dpc = "start"
    /\ IF dataset.exists /\ dataset.usd_value
       THEN /\ \E sample \in Samples(dataset.rows, sample_size) :
                 outdir' = WriteFile(outdir, SampleFile,
                                     WriteText(Csv(UsdHeader, sample), platform))
            /\ dpc' = "sampled"
       ELSE /\ dpc' = "raised"
            /\ UNCHANGED outdir
    /\ UNCHANGED <<dataset, sample_size, privkey, platform, now, manifest, sk, signed>>
    /\ UNCHANGED <<mvars, pvars, svars, bvars, hvars>>

\* the manifest is built from the digests of the two files and written
WriteManifest ==
    /\ dpc = "sampled"
    /\ manifest' = ManifestText(sha256_file(DatasetBytes(dataset)),
                                sha256_file(outdir[SampleFile]), now)
    /\ outdir' = WriteFile(outdir, ManifestFile, WriteText(manifest', platform))
    /\ dpc' = "manifested"
    /\ UNCHANGED <<dataset, sample_size, privkey, platform, now, sk, signed>>
    /\ UNCHANGED <<mvars, pvars, svars, bvars, hvars>>

\* the key is loaded from the file --privkey names (a file that is missing
\* or holds no key makes the script raise), or generated
ObtainKey ==
    /\ dpc = "manifested"
    /\ IF privkey.given
       THEN LET k == load_pem_private_key(privkey)
            IN  IF k.ok
                THEN sk' = k.v /\ dpc' = "keyed"
                ELSE dpc' = "raised" /\ UNCHANGED sk
       ELSE /\ sk' \in GeneratedKeys
            /\ dpc' = "keyed"
    /\ UNCHANGED <<dataset, sample_size, privkey, platform, now, manifest, outdir, signed>>
    /\ UNCHANGED <<mvars, pvars, svars, bvars, hvars>>

\* the public key is written to the delivery folder
WritePublicKey ==
    /\ dpc = "keyed"
    /\ outdir' = WriteFile(outdir, PublicKeyFile, Published(sk))
    /\ dpc' = "published"
    /\ UNCHANGED <<dataset, sample_size, privkey, platform, now, manifest, sk, signed>>
    /\ UNCHANGED <<mvars, pvars, svars, bvars, hvars>>

\* the manifest file is read back and signed, the signature is written
SignManifest ==
    /\ dpc = "published"
    /\ LET data == SignedData(outdir, manifest)
           sig == Sign(sk, data)
       IN  /\ signed' = data
           /\ IF sig.ok
              THEN /\ outdir' = WriteFile(outdir, SignatureFile, sig.v)
                   /\ dpc' = "done"
              ELSE /\ dpc' = "raised"
                   /\ UNCHANGED outdir
    /\ UNCHANGED <<dataset, sample_size, privkey, platform, now, manifest, sk>>
    /\ UNCHANGED <<mvars, pvars, svars, bvars, hvars>>

SignerNext == WriteSample \/ WriteManifest \/ ObtainKey \/ WritePublicKey \/ SignManifest

SpecSigner == SignerInit /\ [][SignerNext]_vars

----------------------------------------------------------------------------
(* Claims about the commitment and its verifier, under SpecMerkle           *)

Indices == 0..(Len(rows) - 1)

\* C1: round trip. For every non-empty list of rows and every index i in
\* range, the verifier's fold over the steps of MerkleTree.proof(i), started
\* at the leaf hash of row i, ends in MerkleTree.root(); and a run of
\* verify_row on an unaltered proof file reports a match.
C1_RoundTrip ==
    /\ (mstatus = "ok" /\ vstatus = "none") =>
         \A i \in Indices : VerifyCur(ProofObject(rows, layers, i)) = root(layers)
    /\ (vstatus = "done" /\ valter = "none") =>
         (vout.match /\ vout.computed_root = Hex(root(layers)))

\* C1 witness: verify_row has matched the proof of the last row of three.
C1_Witness ==
    /\ vstatus = "done" /\ valter = "none"
    /\ Len(rows) = 3 /\ vin.index = 2
    /\ vout.match

\* C2: tamper evidence. When the record of a proof object is replaced by one
\* of other canonical bytes, or the hash of one proof step by the hex of
\* other bytes, verify_row computes a root other than MerkleTree.root() and
\* reports no match.
C2_TamperEvident ==
    (vstatus = "done" /\ valter \in {"row", "hash"}) =>
        (~vout.match /\ vout.computed_root # Hex(root(layers)))

\* C2 witness: verify_row has run on a proof whose second step was altered,
\* and on a proof whose record was altered.
C2_Witness ==
    /\ vstatus = "done"
    /\ \/ /\ valter = "hash"
          /\ Len(vin.proof) >= 2
          /\ vin.proof[2].hash # vorig.proof[2].hash
          /\ ~vin.proof[2].is_left
       \/ /\ valter = "row"
          /\ Len(vin.proof) >= 2
    /\ ~vout.match

OddLayers == {k \in 1..(Len(layers) - 1) : Len(layers[k]) % 2 = 1}

\* C3 as stated: the last node of an odd layer is the last node of the next
\* layer, unchanged.
C3_Original ==
    mstatus = "ok" => \A k \in OddLayers : Last(layers[k + 1]) = Last(layers[k])

\* C3 as amended: the last node x of an odd layer is paired with itself; the
\* last node of the next layer is Hnode(x, x), and every other node of the
\* next layer is the Hnode of its two children.
C3_Amended ==
    mstatus = "ok" =>
        /\ \A k \in OddLayers :
              Last(layers[k + 1]) = Hnode(Last(layers[k]), Last(layers[k]))
        /\ \A k \in 1..(Len(layers) - 1) :
              /\ Len(layers[k + 1]) = (Len(layers[k]) + 1) \div 2
              /\ \A j \in 1..(Len(layers[k]) \div 2) :
                    layers[k + 1][j] = Hnode(layers[k][2 * j - 1], layers[k][2 * j])

\* C3 witness: a tree of five leaves, whose layers 0 and 1 are odd.
C3_Witness ==
    /\ mstatus = "ok"
    /\ Len(rows) = 5
    /\ OddLayers = {1, 2}

\* C4: for a single row the root is the leaf hash of its canonical bytes and
\* the proof of index 0 has no step.
C4_SingleLeaf ==
    (mstatus = "ok" /\ Len(rows) = 1) =>
        /\ root(layers) = Hleaf(canonical_row_bytes(rows[1]))
        /\ rootFile = Hex(Hleaf(canonical_row_bytes(rows[1])))
        /\ proof(layers, 0) = <<>>
        /\ \A p \in proofFiles : p.proof = <<>>

\* C4 witness: the proof file of a single row was written.
C4_Witness ==
    /\ mstatus = "ok"
    /\ Len(rows) = 1
    /\ \E p \in proofFiles : p.index = 0

\* C5: with no data row compute_merkle does not raise; the tree has no
\* layer, root() is the empty byte string, the root file holds the empty
\* text and no proof file is written.
C5_EmptyTree ==
    (mstatus # "start" /\ rows = <<>>) =>
        /\ mstatus = "ok"
        /\ layers = <<>>
        /\ root(layers) = <<>>
        /\ rootFile = <<>>
        /\ proofFiles = {}

\* C5 witness: compute_merkle has returned for a file without data rows
\* and the default sample indices.
C5_Witness ==
    /\ mstatus = "ok"
    /\ rows = <<>>
    /\ samples = 0..9

----------------------------------------------------------------------------
(* Claims about RpcPool.post, under SpecPost (one call) and SpecPool        *)

Retryable == {"s429", "s5xx", "sOther", "rpc_error", "transport", "timeout"}

\* C6: attempt count. Every attempt but the last one made has ended in a
\* retryable failure; a success on attempt k+1 (k < max_retries failures
\* before it) makes post() return (True, data) after exactly k+1 attempts;
\* after max_retries retryable failures post() returns (False, ...) with
\* exactly max_retries attempts made, and no attempt is ever made
\* past max_retries.
C6_AttemptCount ==
    \A c \in DOMAIN call :
        LET k == call[c]
        IN  /\ k.posts <= max_retries
            /\ k.fails <= k.posts /\ k.posts <= k.fails + 1
            /\ k.lastOut = "ok" =>
                  /\ k.pc = "returned" /\ k.ret = RetData
                  /\ k.posts = k.fails + 1 /\ k.fails < max_retries
            /\ k.ret.ok => k.lastOut = "ok"
            /\ (k.fails = max_retries /\ k.pc \notin {"idle", "waiting"}) =>
                  /\ k.pc \in {"sleeping", "returned"}
                  /\ k.posts = max_retries
                  /\ k.pc = "returned" => (~k.ret.ok /\ k.ret.kind = "error")
            /\ (k.pc = "returned" /\ k.ret.kind = "error") =>
                  (k.posts = max_retries /\ k.fails = max_retries)

\* C6 witness: a success after one failed attempt, with two attempts made.
C6_Witness ==
    \E c \in DOMAIN call :
        /\ call[c].pc = "returned" /\ call[c].ret = RetData
        /\ call[c].fails = 1 /\ call[c].posts = 2
        /\ call[c].fails < max_retries

\* C7: a 200 whose body is no JSON ends the call at once: post() has
\* returned the invalid_json failure, without a sleep after that attempt
\* and without a further attempt, whatever number of retries was left.
C7_MalformedTerminal ==
    \A c \in DOMAIN call :
        LET k == call[c]
        IN  k.lastOut = "malformed" =>
                /\ k.pc = "returned"
                /\ k.ret = RetInvalidJson
                /\ k.sleeps = k.posts - 1
                /\ k.fails = k.posts - 1

\* C7 witness: the first attempt was answered with such a body while
\* retries were left.
C7_Witness ==
    \E c \in DOMAIN call :
        /\ call[c].lastOut = "malformed"
        /\ call[c].posts = 1 /\ call[c].posts < max_retries
        /\ call[c].pc = "returned"

\* C8: whatever the attempts end in and for every max_retries >= 0, post()
\* lets no exception out: a call is never left by a raise, a call that is
\* over has returned (True, data) or (False, description), and a call that
\* is not over can take its next step.
C8_NeverRaises ==
    \A c \in DOMAIN call :
        LET k == call[c]
        IN  /\ k.pc # "raised"
            /\ k.pc = "returned" =>
                  \/ k.ret = RetData
                  \/ k.ret = RetInvalidJson
                  \/ k.ret = RetError(k.ret.err) /\ k.ret.err.kind \in Retryable \cup {"None"}
            /\ k.pc # "returned" => ENABLED (Post(c) \/ Acquire(c) \/ Answer(c) \/ Wake(c))

\* C8 witness: every attempt timed out and post() returned the failure.
C8_Witness ==
    \E c \in DOMAIN call :
        /\ call[c].pc = "returned"
        /\ call[c].lastOut = "timeout"
        /\ call[c].ret = RetError(ErrOf("timeout", call[c].ret.err.url))
        /\ call[c].posts = max_retries /\ max_retries >= 2

\* the calls between the acquisition of their permit and its release
Holders == {c \in DOMAIN call : call[c].pc \in {"inflight", "sleeping"}}

\* C9: concurrency gate. At most max(1, concurrency) calls are between
\* acquisition and release; each of them holds exactly one permit, through
\* all of its attempts and sleeps; a call that is over, by any exit, holds
\* none, so the permits left plus the calls inside make up the gate's size.
C9_Gate ==
    /\ Cardinality(Holders) <= Max(1, concurrency)
    /\ sem >= 0
    /\ sem + Cardinality(Holders) = Max(1, concurrency)
    /\ \A c \in DOMAIN call : call[c].held = IF c \in Holders THEN 1 ELSE 0

\* C9 witness: the gate is full with a call asleep between two attempts,
\* another call waits for the permit.
C9_Witness ==
    /\ sem = 0
    /\ \E c \in DOMAIN call : call[c].pc = "sleeping" /\ call[c].posts >= 1
    /\ \E c \in DOMAIN call : call[c].pc = "waiting"

RECURSIVE SumPosts(_)
SumPosts(S) ==
    IF S = {} THEN 0
    ELSE LET c == CHOOSE x \in S : TRUE IN call[c].posts + SumPosts(S \ {c})

\* how often endpoint u was selected
Selected(u) == Cardinality({k \in 1..Len(picks) : picks[k] = u})

\* C10: endpoint rotation. The k-th selection (from 0) is
\* urls[(r0 + k) mod P], whoever makes it; every attempt of every call makes
\* exactly one selection and moves the cursor by one; so after N selections
\* every endpoint was selected floor(N/P) or ceil(N/P) times.
C10_Rotation ==
    LET P == Len(urls)
        N == Len(picks)
    IN  /\ \A k \in 0..(N - 1) : At(picks, k) = At(urls, (rr0 + k) % P)
        /\ rr = rr0 + N
        /\ N = SumPosts(DOMAIN call)
        /\ \A i \in 1..P : Selected(urls[i]) \in {N \div P, (N + P - 1) \div P}

\* C10 witness: on two endpoints, two calls have made three selections
\* between them, one of them by a retry.
C10_Witness ==
    /\ Len(urls) = 2
    /\ Len(picks) = 3
    /\ \E c, d \in DOMAIN call :
         c # d /\ call[c].posts = 2 /\ call[d].posts = 1

----------------------------------------------------------------------------
(* Claims about the construction of a pool and its session, under           *)
(* SpecSession                                                              *)

EmptyArg == parse_urls(urlsArg) = <<>>

\* C11, as stated: constructing the pool with an empty endpoint list raises
\* instead of producing a usable pool.
C11_Original ==
    (pstat # "new" /\ urlsArg = ListArg(<<>>)) => pstat = "raised"

\* C11, amended: constructing the pool with an empty endpoint list (or one
\* that holds only blank entries) does not fail: the pool is built on the
\* endpoints of ETH_RPC_URL when it names any and on the built-in public
\* endpoints otherwise, with its cursor inside that list.
C11_Amended ==
    (pstat # "new" /\ EmptyArg) =>
        /\ pstat = "constructed"
        /\ urls = IF env_urls(envUrl) # <<>> THEN env_urls(envUrl) ELSE FREE_RPC_FALLBACKS
        /\ rr0 \in 0..(Len(urls) - 1)

C11_Witness ==
    /\ urlsArg = ListArg(<<>>)
    /\ pstat = "constructed"
    /\ urls = FREE_RPC_FALLBACKS

\* C19: close() releases the open session and is a no-op, never failing, when
\* called again or without a session; every pool made by the harvester, the
\* balance pipeline and the token-balance fetcher has each session it opened
\* closed exactly once when the program is over, however its body ended.
C19_SessionLifecycle ==
    /\ released <= opened
    /\ (closeCalls > 0 /\ spc # "body") => session # "open"
    /\ (owner \in Programs /\ spc = "done" /\ pstat = "constructed") =>
           /\ session # "open"
           /\ released = opened

----------------------------------------------------------------------------
(* A claim about the exit status of the verifier, under SpecMerkle          *)

\* C20: verify_row reports the computed root, the expected root and whether
\* they match, and its exit status tells a match from a mismatch: it is 0
\* exactly when the roots match.
C20_ExitTellsMismatch ==
    vstatus = "done" =>
        /\ vout.computed_root = Hex(VerifyCur(vin))
        /\ vout.expected_root = Strip(rootFile)
        /\ vout.match = (vout.computed_root = vout.expected_root)
        /\ (vout.exit = ExitNormal) = vout.match

----------------------------------------------------------------------------
(* Claims about the re-association of a batched response, under SpecBatch   *)

Hex5 == Str(<<48, 120, 53>>)
Hex1A == Str(<<48, 120, 49, 65>>)
NotHex == Str(<<122, 122>>)

\* a response to n requests whose items are objects that carry each an id of
\* the requests, no id twice: some or all of the answers, in any order
Answers(r, n) ==
    /\ r.ok
    /\ r.data.t = "list"
    /\ \A k \in 1..Len(r.data.v) :
          /\ r.data.v[k].shape = "dict"
          /\ r.data.v[k].id \in {IntId(i) : i \in 0..(n - 1)}
    /\ \A k, l \in 1..Len(r.data.v) : r.data.v[k].id = r.data.v[l].id => k = l

HasItem(r, i) == \E k \in 1..Len(r.data.v) : r.data.v[k].id = IntId(i)
ResultOf(r, i) == r.data.v[CHOOSE k \in 1..Len(r.data.v) : r.data.v[k].id = IntId(i)].result

\* the balance a result stands for: 0x5 and 0x1A wei in ether, null as 0.0
Decoded(x) ==
    CASE x = Hex5 -> Ether(5)
      [] x = Hex1A -> Ether(26)
      [] OTHER -> Zero

\* C15: for a batched request with the ids 0..n-1 and a response made of
\* answers to it in any order, member i is given the result of the item whose
\* id is i and a member without an item is missing: None in the list
\* fetch_batch_blocks returns, absent from the dict batch_eth_getBalance fills
\* (where the result is decoded, and an item whose result is no number leaves
\* its member absent as well).
C15_Reassociation ==
    /\ (bprog = "blocks" /\ bstat = "returned" /\ blog # <<>>) =>
          LET n == Len(bsubjects)
              r == blog[1]
          IN  Answers(r, n) =>
                 /\ bresults.t = "list"
                 /\ Len(bresults.v) = n
                 /\ \A i \in 0..(n - 1) :
                       bresults.v[i + 1] = IF HasItem(r, i) THEN ResultOf(r, i) ELSE Null
    /\ bprog = "balances" =>
          \A j \in 1..bi :
             LET chunk == Chunks[j]
                 r == blog[j]
             IN  Answers(r, Len(chunk)) =>
                    \A i \in 0..(Len(chunk) - 1) :
                       LET a == chunk[i + 1]
                       IN  IF HasItem(r, i) /\ ResultOf(r, i) # NotHex
                           THEN a \in DOMAIN balances /\ balances[a] = Decoded(ResultOf(r, i))
                           ELSE a \notin DOMAIN balances

C15_Witness ==
    /\ bprog = "blocks"
    /\ bstat = "returned"
    /\ bsubjects = <<1, 2>>
    /\ blog = <<PostOk(List(<<Item(IntId(1), Hex5), Item(IntId(0), Hex1A)>>))>>
    /\ bresults = List(<<Hex1A, Hex5>>)

\* C17: whatever the batched requests return, the eth_balance column has a
\* value for every input address; the value is zero for an address whose
\* chunk request failed, whose item is missing from the response, or whose
\* result is null or no number; and every chunk is requested, also after a
\* failed one, the answers of the later chunks being kept.
C17_Totality ==
    bprog = "balances" =>
        /\ (bstat \in {"returned", "mapped"} /\ bsubjects # <<>>) =>
               /\ bi = Len(Chunks)
               /\ Len(blog) = Len(Chunks)
        /\ bstat = "mapped" =>
               /\ DOMAIN eth_balance = 1..Len(bsubjects)
               /\ \A j \in 1..Len(blog) :
                     LET chunk == Chunks[j]
                         r == blog[j]
                     IN  \A i \in 0..(Len(chunk) - 1) :
                            LET a == chunk[i + 1]
                            IN  /\ ~r.ok => eth_balance[a] = Zero
                                /\ (r.ok /\ r.data.t # "list") => eth_balance[a] = Zero
                                /\ Answers(r, Len(chunk)) =>
                                      eth_balance[a] =
                                          IF HasItem(r, i) THEN Decoded(ResultOf(r, i)) ELSE Zero

C17_Witness ==
    /\ bprog = "balances"
    /\ bstat = "mapped"
    /\ bsubjects = <<1, 2>>
    /\ bbatch = 1
    /\ blog = <<PostFailed, PostOk(List(<<Item(IntId(0), Hex5)>>))>>
    /\ eth_balance = <<Zero, Ether(5)>>

----------------------------------------------------------------------------
(* Claims about the harvest run, under SpecHarvest                          *)

HeaderOnly == [written |-> TRUE, rows |-> {}]
Unresolved == latest = -1

\* C12, as stated: eth_blockNumber is requested up to 5 times, and the run
\* gives up, with a header-only file and a normal return, when all 5 tries
\* have given no block number.
C12_Original ==
    /\ latest_attempt <= 5
    /\ (hpc # "latest" /\ Unresolved) =>
           /\ latest_attempt = 5
           /\ hpc = "returned"
           /\ outFile = HeaderOnly

\* C12, amended: eth_blockNumber is requested up to 4 times, the k-th failed
\* try being followed by a sleep of 0.4 * k seconds; when none of the 4 tries
\* gives a decodable block number the run sweeps no block, writes the
\* header-only candidates file and returns normally.
C12_Amended ==
    /\ latest_attempt <= 4
    /\ hsleeps = [k \in 1..Len(hsleeps) |-> 4 * k]
    /\ Len(hsleeps) = IF Unresolved THEN latest_attempt ELSE latest_attempt - 1
    /\ hpc = "latest" => (Unresolved /\ latest_attempt < 4)
    /\ (hpc # "latest" /\ Unresolved) =>
           /\ latest_attempt = 4
           /\ hpc = "returned"
           /\ sexit = "normal"
           /\ outFile = HeaderOnly
           /\ hlog = <<>>
           /\ addrs = {}

C12_Witness ==
    /\ Unresolved
    /\ hpc = "returned"
    /\ latest_attempt = 4
    /\ hsleeps = <<4, 8, 12, 16>>
    /\ outFile = HeaderOnly

\* the senders and receivers of block b that are true and can be set members
Parties(b) ==
    {x \in {Transactions(b)[k].from : k \in 1..Len(Transactions(b))}
            \cup {Transactions(b)[k].to : k \in 1..Len(Transactions(b))} :
        x \notin {"None", "", "[1]"}}

\* an address in checksum case, or as it was received when it has none
KeptForm(x) == IF x \in {"0xab", "0xAB", "0xAb"} THEN "0xAb"
               ELSE IF x \in {"0xcd", "0xCD", "0xCd"} THEN "0xCd"
               ELSE x

Harvested(b) == {KeptForm(x) : x \in Parties(b)}

\* the blocks whose transactions were gone through
Extracted ==
    UNION {{hlog[k].res[m].v : m \in {i \in 1..Len(hlog[k].res) : hlog[k].res[i].t = "block"}} :
              k \in {j \in 1..Len(hlog) : ~hlog[j].raised}}

\* C13: when the batched request of a chunk has failed BATCH_RETRIES times,
\* one retried single request runs for every block of the chunk (1 to
\* SINGLE_RETRIES tries each, all of them used on a block that stays None); a
\* block that stays None adds no address and never ends the run, the blocks
\* that were fetched add theirs, and the sweep goes on to the next chunk.
C13_BatchFallback ==
    /\ hpc = "single" =>
           /\ br_attempt = BATCH_RETRIES
           /\ Len(singles) = Len(HChunks[ci])
    /\ (hpc = "process" /\ singles # <<>>) =>
           /\ Len(res) = Len(HChunks[ci])
           /\ \A m \in 1..Len(singles) :
                 /\ singles[m].tries \in 1..SINGLE_RETRIES
                 /\ res[m] = Null => singles[m].tries = SINGLE_RETRIES
    /\ \A k \in 1..Len(hlog) :
          hlog[k].failed =>
             /\ (\A m \in 1..Len(hlog[k].res) : hlog[k].res[m].t \in {"null", "block"})
                    => ~hlog[k].raised
             /\ ~hlog[k].raised =>
                    /\ \A m \in 1..Len(hlog[k].res) :
                          hlog[k].res[m].t = "block" => Harvested(hlog[k].res[m].v) \subseteq addrs
                    /\ k = Len(hlog) =>
                          IF k = Len(HChunks) THEN hpc = "returned"
                          ELSE ci = k + 1 /\ hpc \in {"batch", "single", "process"}
    /\ addrs \subseteq UNION {Harvested(b) : b \in Extracted}

C13_Witness ==
    /\ Len(hlog) >= 2
    /\ hlog[1].failed
    /\ hlog[1].res = <<Null, Block(2)>>
    /\ ~hlog[2].raised
    /\ "0xzz" \in addrs

\* the number of chunks in a row, up to chunk k, whose batched request failed
\* outright, counted from the last chunk that succeeded or was followed by
\* the cooldown
RECURSIVE Streak(_)
Streak(k) ==
    IF k = 0 THEN 0
    ELSE IF ~hlog[k].failed THEN 0
    ELSE IF Streak(k - 1) = 3 THEN 1
    ELSE Streak(k - 1) + 1

\* C14: the cooldown is taken after a chunk exactly when it is the third
\* chunk in a row whose batched request failed outright since the last
\* successful batch or the last cooldown; a successful batch and the cooldown
\* reset the counter to 0, and the counter is in 0..2 when a chunk starts.
C14_CircuitBreaker ==
    /\ \A k \in 1..Len(hlog) : ~hlog[k].raised => (hlog[k].cooldown <=> Streak(k) = 3)
    /\ (hpc = "batch" /\ br_attempt = 0) =>
           /\ consecutive_batch_failures \in 0..2
           /\ consecutive_batch_failures =
                  IF Streak(Len(hlog)) = 3 THEN 0 ELSE Streak(Len(hlog))

C14_Witness ==
    /\ Len(hlog) >= 4
    /\ \A k \in 1..4 : hlog[k].failed /\ ~hlog[k].raised
    /\ hlog[3].cooldown
    /\ ~hlog[4].cooldown

\* C16, as stated: an address whose checksum normalization fails is never
\* added to the harvested set.
C16_Original == \A a \in addrs : toChecksumAddress(a).ok

\* C16, amended: in the range sweep an address whose checksum normalization
\* fails is added as it was received (only a value that cannot be a set
\* member is dropped): the harvested set holds, for the blocks gone through,
\* the checksum form of every address that has one and the raw text of every
\* other one.
C16_Amended ==
    hpc \in {"batch", "single", "process", "returned"} =>
        /\ addrs = UNION {Harvested(b) : b \in Extracted}
        /\ hpc = "returned" => outFile.rows = addrs

C16_Witness ==
    /\ hpc = "returned"
    /\ 2 \in Extracted
    /\ "0xzz" \in outFile.rows

\* C18: whatever the requests return (a failure, an object with or without a
\* result, a list, a bare string), main_async ends without raising and with
\* the candidates file written.
C18_SafeHarvest ==
    /\ hpc # "raised"
    /\ sexit # "error"
    /\ hpc = "returned" => outFile.written

----------------------------------------------------------------------------
(* Claims about proof construction, under SpecMerkle                        *)

\* the position of the ancestor of leaf i, k layers up
RECURSIVE Ancestor(_, _)
Ancestor(i, k) == IF k = 0 THEN i ELSE Ancestor(i, k - 1) \div 2

\* the last node of an odd layer: it has no sibling
Unpaired(layer, cur) == Len(layer) % 2 = 1 /\ cur = Len(layer) - 1

\* step k of the proof of leaf i, told from the positions in the layers
StepOf(i, k) ==
    LET layer == layers[k]
        cur == Ancestor(i, k - 1)
    IN  IF Unpaired(layer, cur)
        THEN [hash |-> Hex(layer[cur + 1]), is_left |-> FALSE]
        ELSE IF cur % 2 = 1
             THEN [hash |-> Hex(layer[cur]), is_left |-> TRUE]
             ELSE [hash |-> Hex(layer[cur + 2]), is_left |-> FALSE]

\* C22: proof construction. For every leaf index i the proof has one step
\* per layer below the root; the step of a layer holds the node at position
\* cur XOR 1 of that layer, flagged is_left exactly when that position is
\* even (the current node is a right child), or, when the current node is
\* the last, unpaired node of an odd layer, the current node's own hash
\* flagged is_left false. The proof files written hold exactly these proofs.
\* (Stated where compute_merkle has just returned: nothing later changes the
\* tree or the files.)
C22_ProofConstruction ==
    (mstatus = "ok" /\ vstatus = "none") =>
        /\ \A i \in Indices :
              LET pr == proof(layers, i)
              IN  /\ Len(pr) = Len(layers) - 1
                  /\ \A k \in 1..(Len(layers) - 1) : pr[k] = StepOf(i, k)
        /\ \A p \in proofFiles :
              /\ Len(p.proof) = Len(layers) - 1
              /\ \A k \in 1..Len(p.proof) : p.proof[k] = StepOf(p.index, k)

\* C22 witness: the proof files of five rows were written; the proof of the
\* last row has three steps, the first two for an unpaired node and the
\* third for a right child, and the proof of row 1 starts with a left
\* sibling.
C22_Witness ==
    /\ mstatus = "ok"
    /\ Len(rows) = 5
    /\ \E p \in proofFiles :
          /\ p.index = 4
          /\ Len(p.proof) = 3
          /\ Unpaired(layers[1], 4) /\ Unpaired(layers[2], 2)
          /\ p.proof[1] = [hash |-> Hex(layers[1][5]), is_left |-> FALSE]
          /\ p.proof[3] = [hash |-> Hex(layers[3][1]), is_left |-> TRUE]
    /\ \E p \in proofFiles : p.index = 1 /\ p.proof[1].is_left

----------------------------------------------------------------------------
(* Claims about the error returned and about timeouts, under SpecPost       *)

\* C23: when its attempts are used up, post() returns the failure with the
\* description of the last attempt made, its outcome and the endpoint it
\* went to, whatever the attempts before it ended in; between two attempts
\* last_err describes the attempt that just failed. (With max_retries = 0
\* no attempt is made and the description is None.)
C23_LastError ==
    \A c \in DOMAIN call :
        LET k == call[c]
        IN  /\ (k.pc = "returned" /\ k.ret.kind = "error") =>
                  /\ k.posts = max_retries
                  /\ k.ret.err = IF k.posts = 0 THEN NoErr
                                 ELSE ErrOf(k.lastOut, Last(picks))
            /\ k.pc = "sleeping" => k.last_err = ErrOf(k.lastOut, Last(picks))

\* C23 witness: two attempts went to two endpoints and failed; the failure
\* returned describes an RPC error at the second endpoint.
C23_Witness ==
    /\ call[1].pc = "returned"
    /\ call[1].posts = 2 /\ call[1].fails = 2
    /\ Len(picks) = 2 /\ picks[1] # picks[2]
    /\ call[1].ret = RetError(ErrOf("rpc_error", picks[2]))

\* the attempt of caller c ends in an exception
ExceptionStep(c) ==
    /\ call[c].pc = "inflight"
    /\ call'[c].pc # "inflight"
    /\ call'[c].lastOut \in Exceptions

\* caller c, asleep after an exception, goes on
AfterException(c) ==
    /\ call[c].pc = "sleeping"
    /\ call[c].lastOut \in Exceptions
    /\ call'[c] # call[c]

\* C24: a timeout is handled as a transport error is. Either exception
\* ends the attempt in the same way: the call keeps its permit, counts one
\* failed attempt, notes the exception with the endpoint as last_err and
\* sleeps min(8, 0.5 * attempt) seconds plus up to half a second; after the
\* sleep the next attempt goes to the next endpoint of the rotation while
\* attempts remain, and otherwise post() returns the failure.
C24_TimeoutAsTransport ==
    [][\A c \in DOMAIN call :
          /\ ExceptionStep(c) =>
                /\ call'[c] = [call[c] EXCEPT
                                  !.pc = "sleeping",
                                  !.lastOut = call'[c].lastOut,
                                  !.last_err = ErrOf(call'[c].lastOut, call[c].url),
                                  !.fails = @ + 1,
                                  !.sleeps = @ + 1,
                                  !.backoff = [base |-> Min(8000, 500 * call[c].attempt),
                                               jitter |-> 500]]
                /\ sem' = sem /\ rr' = rr
          /\ AfterException(c) =>
                IF call[c].attempt < max_retries
                THEN /\ call'[c].pc = "inflight"
                     /\ call'[c].attempt = call[c].attempt + 1
                     /\ call'[c].posts = call[c].posts + 1
                     /\ call'[c].url = At(urls, rr % Len(urls))
                     /\ rr' = rr + 1
                     /\ Len(urls) >= 2 => call'[c].url # call[c].url
                ELSE /\ call'[c].pc = "returned"
                     /\ call'[c].ret = RetError(call[c].last_err)
                     /\ call'[c].posts = max_retries
      ]_vars

\* C24 witness: the first attempt timed out, the call slept, and its second
\* attempt is in flight at the other endpoint.
C24_Witness ==
    /\ call[1].pc = "inflight"
    /\ call[1].attempt = 2
    /\ call[1].lastOut = "timeout"
    /\ call[1].sleeps = 1
    /\ call[1].last_err.kind = "timeout"
    /\ call[1].last_err.url # call[1].url

----------------------------------------------------------------------------
(* Claim about the endpoint of a retry, under SpecPool                      *)

\* C27: retry rotation. On a pool of at least two endpoints every retry of
\* a request goes to another endpoint than the attempt of that request
\* right before it (the one last_err names), also while other calls take
\* selections in between.
C27_RetryElsewhere ==
    Len(urls) >= 2 =>
        \A c \in DOMAIN call :
            (call[c].pc = "inflight" /\ call[c].attempt >= 2) =>
                call[c].url # call[c].last_err.url

----------------------------------------------------------------------------
(* Claim about the ids of a batched response, under SpecBatch               *)

\* an item whose id is none of 0..n-1: negative, too large, or no integer
\* (an id that int() reads as one of 0..n-1, as "0", counts as that number)
Foreign(it, n) == ~(ItemId(it).ok /\ 0 <= ItemId(it).v /\ ItemId(it).v < n)

\* a response without its foreign items
RECURSIVE WithoutForeign(_, _)
WithoutForeign(items, n) ==
    IF items = <<>> THEN <<>>
    ELSE (IF Foreign(Head(items), n) THEN <<>> ELSE <<Head(items)>>)
             \o WithoutForeign(Tail(items), n)

Cleaned(r, n) ==
    IF r.ok /\ r.data.t = "list" THEN PostOk(List(WithoutForeign(r.data.v, n))) ELSE r

\* the balances after the first k chunks, had the responses held no foreign item
RECURSIVE CleanBalances(_)
CleanBalances(k) ==
    IF k = 0 THEN <<>>
    ELSE BalanceChunk(Chunks[k], Cleaned(blog[k], Len(Chunks[k])), CleanBalances(k - 1))

\* C28: out-of-range ids. An item of a batched response whose id is none of
\* 0..len(chunk)-1 is ignored: fetch_batch_blocks and batch_eth_getBalance
\* attribute to every member what they would attribute had the response
\* come without such items.
C28_ForeignIdsIgnored ==
    /\ (bprog = "blocks" /\ bstat = "returned" /\ blog # <<>>) =>
          bresults = fetch_batch_blocks(bsubjects, Cleaned(blog[1], Len(bsubjects)))
    /\ (bprog = "balances" /\ bsubjects # <<>>) => balances = CleanBalances(bi)

----------------------------------------------------------------------------
(* Claim about what the root commits to, under SpecMerkle                   *)

\* the canonical leaves of a list of rows, and the root committed for them
LeavesOf(rs) == [i \in 1..Len(rs) |-> canonical_row_bytes(rs[i])]
RootOf(rs) == root(MerkleTree(LeavesOf(rs)))

\* C26: commitment binding. The root determines the list of leaves: every
\* list of rows whose leaves differ from the committed ones, in number or
\* in any leaf, has another root; so has the committed list with its last
\* row repeated.
C26_Binding ==
    (mstatus = "ok" /\ vstatus = "none") =>
        /\ \A other \in SeqsUpTo(RowSet, MaxLeaves) :
              LeavesOf(other) # LeavesOf(rows) => RootOf(other) # root(layers)
        /\ (rows # <<>> /\ Len(rows) < MaxLeaves) =>
              RootOf(Append(rows, Last(rows))) # root(layers)

----------------------------------------------------------------------------
(* Claims about the partition of the range and the end of the sweep, under  *)
(* SpecHarvest                                                              *)

RECURSIVE Concat(_)
Concat(cs) == IF cs = <<>> THEN <<>> ELSE Head(cs) \o Concat(Tail(cs))

\* the blocks of the sweep, once the latest block is known
SweepBlocks == Range(SweepStart(latest, lookback_blocks), latest)

\* C25: partitioning. The chunks chunk_list yields for the block range and a
\* chunk size n > 0 give the range back when put together in order, none
\* has more than n elements and all but the last have n. So the sweep enters
\* the blocks of [start, latest] in ascending order, each once: what it has
\* entered is always the beginning of the range, the counter never exceeds
\* it, and when main_async returns after the sweep every block was entered
\* and processed equals total_blocks = latest - start + 1.
C25_Partition ==
    latest >= 0 =>
        /\ batch_size > 0
        /\ Concat(HChunks) = SweepBlocks
        /\ \A k \in 1..Len(HChunks) :
              /\ Len(HChunks[k]) <= batch_size
              /\ k < Len(HChunks) => Len(HChunks[k]) = batch_size
        /\ Len(visited) <= Len(SweepBlocks)
        /\ visited = SubSeq(SweepBlocks, 1, Len(visited))
        /\ \A i, j \in 1..Len(visited) : i < j => visited[i] < visited[j]
        /\ processed <= Len(visited)
        /\ hpc = "returned" =>
              /\ visited = SweepBlocks
              /\ processed = latest - SweepStart(latest, lookback_blocks) + 1
              /\ processed = Len(SweepBlocks)

\* C25 witness: the sweep of blocks 1..3 in chunks of two has returned; the
\* second chunk held one block.
C25_Witness ==
    /\ hpc = "returned"
    /\ latest = 3 /\ batch_size = 2
    /\ HChunks = <<(<<1, 2>>), (<<3>>)>>
    /\ visited = <<1, 2, 3>>
    /\ processed = 3

\* the requests a chunk of n blocks can still take, and its last step
PerChunk(n) == BATCH_RETRIES + n * SINGLE_RETRIES + 1

RECURSIVE ChunksAfter(_)
ChunksAfter(k) ==
    IF k >= Len(HChunks) THEN 0 ELSE PerChunk(Len(HChunks[k + 1])) + ChunksAfter(k + 1)

RECURSIVE TriesLeft(_)
TriesLeft(m) ==
    IF m = 0 THEN 0
    ELSE (IF singles[m].done THEN 0 ELSE SINGLE_RETRIES - singles[m].tries) + TriesLeft(m - 1)

\* an upper bound of the steps main_async can still take
Work ==
    CASE hpc = "latest" ->
            (LatestAttempts - latest_attempt) + (MaxLatest + 1) * PerChunk(batch_size)
      [] hpc = "batch" ->
            (BATCH_RETRIES - br_attempt) + Len(HChunks[ci]) * SINGLE_RETRIES + 1
                + ChunksAfter(ci)
      [] hpc = "single" -> TriesLeft(Len(singles)) + 1 + ChunksAfter(ci)
      [] hpc = "process" -> 1 + ChunksAfter(ci)
      [] OTHER -> 0

\* C29: termination of the harvest. Whatever the requests return, every
\* step of main_async lowers a bound of the steps left that never goes
\* below zero, so the sweep ends; a chunk takes at most BATCH_RETRIES
\* batched requests and each of its blocks at most SINGLE_RETRIES single
\* requests; the sweep goes from a chunk to the next one only, and the
\* blocks it has entered never repeat.
C29_Termination ==
    [][/\ Work' < Work
       /\ Work' >= 0
       /\ br_attempt' <= BATCH_RETRIES
       /\ \A m \in 1..Len(singles') : singles'[m].tries <= SINGLE_RETRIES
       /\ ci' \in {ci, ci + 1}
       /\ ci' = ci + 1 => (br_attempt' = 0 /\ singles' = <<>>)
       /\ \A i, j \in 1..Len(visited') : i # j => visited'[i] # visited'[j]
      ]_vars

\* C29 witness: the sweep has ended after a chunk that used up its batched
\* requests and all the single requests of one of its two blocks.
C29_Witness ==
    /\ hpc = "returned"
    /\ Len(hlog) >= 2
    /\ \E k \in 1..Len(hlog) :
          /\ hlog[k].failed
          /\ Len(hlog[k].res) = 2
          /\ hlog[k].res[1] = Null
    /\ Work = 0

----------------------------------------------------------------------------
(* Claim about the files of a delivery, under SpecSigner                    *)

DeliveryFiles == {SampleFile, ManifestFile, SignatureFile, PublicKeyFile}

\* the private keys a run has to do with: the one in memory, the one of the
\* file --privkey names
PrivateKeys ==
    (IF sk = NoKey THEN {} ELSE {sk})
    \cup (IF privkey.kind \in {"ed25519", "rsa"}
          THEN {[alg |-> privkey.kind, id |-> privkey.id]} ELSE {})

\* bytes that hold the bytes sub somewhere
Holds(bytes, sub) ==
    \E i \in 1..(Len(bytes) - Len(sub) + 1) : SubSeq(bytes, i, i + Len(sub) - 1) = sub

\* C21: the outputs of the signer. Whether the key was supplied or
\* generated, a run writes no file but the sample, the manifest, the
\* detached signature and the public key, and a run that ends has written
\* these four; no file written holds the private key; the bytes signed are
\* the bytes of the manifest file on disk, and the signature file holds the
\* signature of those bytes.
C21_SignerOutputs ==
    /\ DOMAIN outdir \subseteq DeliveryFiles
    /\ \A f \in DOMAIN outdir : \A k \in PrivateKeys : ~Holds(outdir[f], PrivatePem(k))
    /\ dpc = "done" =>
          /\ DOMAIN outdir = DeliveryFiles
          /\ signed = outdir[ManifestFile]
          /\ outdir[SignatureFile] = Sign(sk, outdir[ManifestFile]).v
          /\ outdir[PublicKeyFile] = PublicPem(sk)

\* C21 witness: a run with a generated key has ended on a platform whose
\* manifest file differs from the text in memory.
C21_Witness ==
    /\ dpc = "done"
    /\ ~privkey.given
    /\ sk \in GeneratedKeys
    /\ outdir[ManifestFile] # manifest
    /\ signed = outdir[ManifestFile]

====
